---- MODULE Spec2Model ----
(***************************************************************************)
(* A model of goradd/maps SliceMap (src/slice_map.go, the current version  *)
(* of the type, lines 329-777): a Go map `items` plus a slice `order` of   *)
(* its keys and an optional sort function `lessF`.                          *)
(*                                                                         *)
(* Keys and values are small integers. A Go panic is modelled as the call  *)
(* ending with `panic` set and the fields as the statements executed       *)
(* before the panic left them (what a caller that recovers observes).      *)
(***************************************************************************)
EXTENDS Integers, Sequences, FiniteSets, TLC

\* ---------------------------------------------------------------- bounds
NumKeys == 3
MaxVal == 1
MaxOrder == 3
MaxSeq == 2
MaxIndex == 3

Key == 0..(NumKeys - 1)
Val == 0..MaxVal
Index == (0 - MaxIndex)..MaxIndex

\* The zero value of V (`var oldVal V`) and of K (`var emptyKey K`).
ZeroV == 0
EmptyKey == 0

\* ------------------------------------------------------- sort functions
\* lessF == NilF is Go's nil func value.
NilF == "nil"
SortFuncs == {"byKey", "byVal", "byGroup", "byValDesc"}

\* A func(key1, key2 K, val1, val2 V) bool: by key as in the tests, by
\* value, by a key class that ranks keys 2n and 2n+1 as equal, and by value
\* descending.
Less(f, key1, key2, val1, val2) ==
    CASE f = "byKey" -> key1 < key2
      [] f = "byVal" -> val1 < val2
      [] f = "byGroup" -> (key1 \div 2) < (key2 \div 2)
      [] f = "byValDesc" -> val1 > val2
      [] OTHER -> FALSE

\* ------------------------------------------------------------ panics
NoPanic == "none"
PanicSetAt == "cannot use SetAt if you are also using a sort function"
PanicNilMap == "assignment to entry in nil map"
PanicBounds == "slice bounds out of range"
PanicCallback == "panic in a function of the caller"
PanicNilReceiver == "cannot use a nil SliceMap"
PanicNilPointer == "invalid memory address or nil pointer dereference"
PanicIndex == "index out of range"

\* ------------------------------------------------------- Go map, slices
EmptyMap == [k \in {} |-> ZeroV]

\* v, ok := m[k]; a nil map reads as an empty one
MapGet(m, k) == IF k \in DOMAIN m THEN m[k] ELSE ZeroV

\* m[k] = v
MapSet(m, k, v) == [x \in (DOMAIN m) \cup {k} |-> IF x = k THEN v ELSE m[x]]

\* delete(m, k)
MapDelete(m, k) == [x \in (DOMAIN m) \ {k} |-> m[x]]

\* len(m)
MapLen(m) == Cardinality(DOMAIN m)

\* slices.Delete(s, i, i+1) / append(s[:i], s[i+1:]...), i counted from 0
RemoveAt(s, i) == SubSeq(s, 1, i) \o SubSeq(s, i + 2, Len(s))

\* InsertAt without the copy: the entry at i is overwritten, the appended
\* empty key stays last.
InsertAtNoCopy(s, i, k) ==
    [j \in 1..(Len(s) + 1) |->
        IF j = i + 1 THEN k ELSE IF j <= Len(s) THEN s[j] ELSE EmptyKey]

\* s = append(s, k); copy(s[i+1:], s[i:]); s[i] = k, i counted from 0
InsertAt(s, i, k) == SubSeq(s, 1, i) \o <<k>> \o SubSeq(s, i + 1, Len(s))

\* sort.Search(n, f): binary search; p[h] is f(h), or "panic" when f(h)
\* indexes past the end of the slice. -1 stands for the panic.
RECURSIVE SearchFrom(_, _, _)
SearchFrom(p, i, j) ==
    IF i >= j THEN i
    ELSE LET h == (i + j) \div 2
         IN  IF p[h] = "panic" THEN 0 - 1
             ELSE IF p[h] = "false" THEN SearchFrom(p, h + 1, j)
             ELSE SearchFrom(p, i, h)

Search(n, p) == SearchFrom(p, 0, n)

\* func(n) !m.lessF(m.order[n], key, m.items[m.order[n]], oldVal) over
\* 0..len(m.items)-1
OldLocPred(m, key, oldVal) ==
    [n \in 0..(MapLen(m.items) - 1) |->
        IF n >= Len(m.order) THEN "panic"
        ELSE IF ~Less(m.lessF, m.order[n + 1], key,
                      MapGet(m.items, m.order[n + 1]), oldVal)
             THEN "true" ELSE "false"]

\* func(n) m.lessF(key, m.order[n], val, m.items[m.order[n]]) over
\* 0..len(m.order)-1
NewLocPred(m, key, val) ==
    [n \in 0..(Len(m.order) - 1) |->
        IF Less(m.lessF, key, m.order[n + 1], val,
                MapGet(m.items, m.order[n + 1]))
        THEN "true" ELSE "false"]

\* ------------------------------------------------------------ SliceMap
\* A SliceMap value: items (with alloc = items != nil), order, lessF, and
\* the panic the running call ended with.
NewSliceMap ==
    [items |-> EmptyMap, alloc |-> FALSE, order |-> <<>>, lessF |-> NilF,
     panic |-> NoPanic]

\* The location Set removes an existing key from. oldVal is declared and
\* never assigned, so the search compares against the zero value.
SetOldLoc(m, key) == Search(MapLen(m.items), OldLocPred(m, key, ZeroV))

\* SetNewLoc without the search: the key goes to the end.
SetNewLocAtEnd(m, key, val) == Len(m.order)

\* The location Set inserts the key at under a sort function.
SetNewLoc(m, key, val) == Search(Len(m.order), NewLocPred(m, key, val))

\* SetPlainOrder without the test for a present key.
SetPlainOrderAlways(m, key) == Append(m.order, key)

\* The order Set leaves without a sort function.
SetPlainOrder(m, key) ==
    IF key \in DOMAIN m.items THEN m.order ELSE Append(m.order, key)

Set(m, key, val) ==
    LET m1 == [m EXCEPT !.alloc = TRUE]
        ok == key \in DOMAIN m1.items
    IN  IF m1.lessF # NilF
        THEN LET loc == SetOldLoc(m1, key)
                 m2 == IF ~ok THEN m1
                       ELSE IF loc = 0 - 1
                            THEN [m1 EXCEPT !.panic = PanicIndex]
                       ELSE IF loc >= Len(m1.order)
                            THEN [m1 EXCEPT !.panic = PanicBounds]
                       ELSE [m1 EXCEPT !.order = RemoveAt(@, loc)]
             IN  IF m2.panic # NoPanic THEN m2
                 ELSE [m2 EXCEPT
                         !.order = InsertAt(@, SetNewLoc(m2, key, val), key),
                         !.items = MapSet(@, key, val)]
        ELSE [m1 EXCEPT !.order = SetPlainOrder(m1, key),
                        !.items = MapSet(@, key, val)]

\* The index of the first occurrence of key in s counted from 0, Len(s)
\* when there is none: for i, v := range m.order { if v == key ... break }
RECURSIVE IndexOf(_, _, _)
IndexOf(s, key, i) ==
    IF i >= Len(s) THEN Len(s)
    ELSE IF s[i + 1] = key THEN i
    ELSE IndexOf(s, key, i + 1)

\* The location Delete removes the key from under a sort function.
DeleteLoc(m, key) ==
    Search(MapLen(m.items), OldLocPred(m, key, MapGet(m.items, key)))

Delete(m, key) ==
    IF key \notin DOMAIN m.items THEN m
    ELSE IF m.lessF # NilF
         THEN LET loc == DeleteLoc(m, key)
              IN  IF loc = 0 - 1 THEN [m EXCEPT !.panic = PanicIndex]
                  ELSE IF loc + 1 > Len(m.order)
                       THEN [m EXCEPT !.panic = PanicBounds]
                  ELSE [m EXCEPT !.order = RemoveAt(@, loc),
                                 !.items = MapDelete(@, key)]
         ELSE [m EXCEPT !.order = RemoveAt(@, IndexOf(m.order, key, 0)),
                        !.items = MapDelete(@, key)]

\* The index SetAt places the key at, from the requested index and
\* len(m.items) after the key's old entry is gone.
SetAtIndex(index, n) ==
    LET i1 == IF index <= 0 - n THEN 0 ELSE index
    IN  IF i1 < 0 THEN n + i1 ELSE i1

SetAt(m, index, key, val) ==
    IF m.lessF # NilF THEN [m EXCEPT !.panic = PanicSetAt]
    ELSE IF index >= Len(m.order) THEN Set(m, key, val)
    ELSE LET m1 == IF key \in DOMAIN m.items THEN Delete(m, key) ELSE m
             at == SetAtIndex(index, MapLen(m1.items))
         IN  IF at > Len(m1.order)
             THEN [m1 EXCEPT !.order = Append(@, EmptyKey),
                             !.panic = PanicBounds]
             ELSE IF ~m1.alloc
                  THEN [m1 EXCEPT !.order = InsertAt(@, at, key),
                                  !.panic = PanicNilMap]
             ELSE [m1 EXCEPT !.order = InsertAt(@, at, key),
                             !.items = MapSet(@, key, val)]

\* No adjacent entries (a, b) of s with less(b, a, val(b), val(a)).
IsSortedBy(f, its, s) ==
    \A i \in 1..(Len(s) - 1) :
        ~Less(f, s[i + 1], s[i], MapGet(its, s[i + 1]), MapGet(its, s[i]))

\* The rearrangements of s.
Rearrangements(s) ==
    LET n == Len(s)
        bij == {p \in [1..n -> 1..n] : \A i, j \in 1..n : p[i] = p[j] => i = j}
    IN  {[i \in 1..n |-> s[p[i]]] : p \in bij}

\* sort.Slice(m.order, less): sorts in place and is not stable, so any
\* sorted rearrangement can come out.
SortSlice(f, its, s) == {t \in Rearrangements(s) : IsSortedBy(f, its, t)}

\* SetSortFunc without the sort: the function is stored, the order kept.
SetSortFuncNoSort(m, f) == {[m EXCEPT !.lessF = f]}

\* SetSortFunc that ignores a nil function: the installed one stays.
SetSortFuncIgnoresNil(m, f) ==
    IF f = NilF THEN {m}
    ELSE {[m EXCEPT !.lessF = f, !.order = t] :
             t \in SortSlice(f, m.items, m.order)}

\* The value Delete(key) returns: val = m.items[key] for a present key,
\* the zero value otherwise.
DeleteVal(m, key) == IF key \in DOMAIN m.items THEN m.items[key] ELSE ZeroV

\* The SliceMaps SetSortFunc(f) can leave.
SetSortFunc(m, f) ==
    IF f # NilF /\ Len(m.order) > 0
    THEN {[m EXCEPT !.lessF = f, !.order = t] :
             t \in SortSlice(f, m.items, m.order)}
    ELSE {[m EXCEPT !.lessF = f]}

\* Clear that drops the sort function with the entries.
ClearAll(m) == [NewSliceMap EXCEPT !.panic = m.panic]

\* Clear that empties the mapping and forgets the key slice.
ClearItems(m) == [m EXCEPT !.items = EmptyMap, !.alloc = FALSE]

Clear(m) == [m EXCEPT !.items = EmptyMap, !.alloc = FALSE, !.order = <<>>]

\* A sequence of Set calls, one per pair, ended by the first panic.
RECURSIVE SetAll(_, _)
SetAll(m, pairs) ==
    IF pairs = <<>> \/ m.panic # NoPanic THEN m
    ELSE SetAll(Set(m, Head(pairs).key, Head(pairs).val), Tail(pairs))

\* in.Range(func(k, v) { m.Set(k, v); return true }), src being the pairs
\* of in in its Range order.
Copy(m, src) == SetAll(m, src)

\* The deprecated Merge: the same loop as Copy.
Merge(m, src) == SetAll(m, src)

\* for k, v := range seq { m.Set(k, v) }
Insert(m, seq) == SetAll(m, seq)

\* for i, k := range slices.Backward(s): the entries of the slice as it was
\* at the call, from index i down to 0; del is the set of keys the
\* predicate accepts.
RECURSIVE DeleteFuncFrom(_, _, _, _)
DeleteFuncFrom(m, s, i, del) ==
    IF i < 0 THEN m
    ELSE IF s[i + 1] \in del
         THEN DeleteFuncFrom([m EXCEPT !.items = MapDelete(@, s[i + 1]),
                                       !.order = RemoveAt(@, i)],
                             s, i - 1, del)
         ELSE DeleteFuncFrom(m, s, i - 1, del)

DeleteFunc(m, del) == DeleteFuncFrom(m, m.order, Len(m.order) - 1, del)

\* The keys DeleteFunc calls del with, in the order of the calls: the
\* entries of the key slice from the last to the first.
DeleteFuncCalls(m) ==
    [i \in 1..Len(m.order) |-> m.order[Len(m.order) - i + 1]]

\* Clone with m1.items = m.items: the clone holds the source's map.
CloneSameItems(m) ==
    [m1 |-> [m EXCEPT !.panic = NoPanic], sameItems |-> m.alloc]

\* Clone(): m1 with a copy of the map (maps.Clone, nil for nil), a copy of
\* the key slice and the same sort function; sameItems tells whether
\* m1.items is the map object the source holds.
Clone(m) ==
    [m1 |-> [items |-> m.items, alloc |-> m.alloc, order |-> m.order,
             lessF |-> m.lessF, panic |-> NoPanic],
     sameItems |-> FALSE]

\* The calls that assign a map to the items field (m.items = nil,
\* m.items = items) where the others write to the map the field holds.
Reassigns == {"Clear", "clone.Clear", "UnmarshalBinary", "UnmarshalJSON"}

\* The name a call that returns an error is recorded under: the call
\* returned nil for err = "none".
Returned(op, err) == IF err = "none" THEN op ELSE "error"

\* The map one SliceMap holds after a call on the other left the map own:
\* the same map when the two hold one map object and the call wrote to it
\* in place.
Seen(same, op, own, other) ==
    IF same /\ op \notin Reassigns THEN own ELSE other

\* The orders in which a range over a Go map can visit its keys.
MapRanges(its) ==
    {q \in [1..MapLen(its) -> DOMAIN its] :
        \A i, j \in DOMAIN q : q[i] = q[j] => i = j}

\* encoder.Encode(map[K]V(m.items)): the pairs of the map as gob writes
\* them, in the order of a range over the map; a nil map is written as an
\* empty one.
GobEncodeMap(its) ==
    {[i \in DOMAIN q |-> <<q[i], its[q[i]]>>] : q \in MapRanges(its)}

\* MarshalBinary with the keys written in ascending order whatever
\* m.order is.
MarshalBinaryKeysAscending(m) ==
    {[items |-> ps,
      order |-> CHOOSE q \in MapRanges(m.items) :
                    \A i \in 1..(Len(q) - 1) : q[i] < q[i + 1]] :
        ps \in GobEncodeMap(m.items)}

\* The byte streams MarshalBinary can return for a non-nil m: the encoded
\* mapping, then the encoded key slice.
MarshalBinary(m) ==
    {[items |-> ps, order |-> m.order] : ps \in GobEncodeMap(m.items)}

\* dec.Decode(&items) on an encoded map: a new map assigned pair by pair.
RECURSIVE GobDecodeMap(_)
GobDecodeMap(ps) ==
    IF ps = <<>> THEN EmptyMap
    ELSE MapSet(GobDecodeMap(SubSeq(ps, 1, Len(ps) - 1)),
                ps[Len(ps)][1], ps[Len(ps)][2])

\* What the two Decode calls get from a stream MarshalBinary wrote.
GobDecode(stream) ==
    [err |-> "none", items |-> GobDecodeMap(stream.items),
     order |-> stream.order]

\* UnmarshalBinary decoding into the fields of m instead of into local
\* variables: a failure of the second Decode leaves the new mapping in.
UnmarshalBinaryInPlace(m, data) ==
    IF data.err = "items" THEN m
    ELSE IF data.err = "order"
         THEN [m EXCEPT !.items = data.items, !.alloc = TRUE]
    ELSE [m EXCEPT !.items = data.items, !.alloc = TRUE,
                   !.order = data.order]

\* data decodes to a mapping and a key sequence, or fails in one of the
\* two Decode calls.
UnmarshalBinary(m, data) ==
    IF data.err # "none" THEN m
    ELSE [m EXCEPT !.items = data.items, !.alloc = TRUE,
                   !.order = data.order]

\* data decodes to a mapping (nil for the JSON null) or fails; the order
\* is the iteration order of the decoded Go map, which is any order.
UnmarshalJSON(m, data) ==
    IF data.err # "none" THEN {m}
    ELSE {[m EXCEPT !.items = data.items, !.alloc = ~data.null,
                    !.order = t] :
             t \in {q \in [1..MapLen(data.items) -> DOMAIN data.items] :
                       \A i, j \in DOMAIN q : q[i] = q[j] => i = j}}

\* ------------------------------------------------------- read accessors
Keys(m) == m.order
Values(m) == [i \in 1..Len(m.order) |-> MapGet(m.items, m.order[i])]
LenOf(m) == MapLen(m.items)
Has(m, key) == key \in DOMAIN m.items
Get(m, key) == MapGet(m.items, key)
Load(m, key) == <<MapGet(m.items, key), key \in DOMAIN m.items>>
GetAt(m, position) ==
    IF position < Len(m.order) /\ position >= 0
    THEN MapGet(m.items, m.order[position + 1]) ELSE ZeroV
GetKeyAt(m, position) ==
    IF position < Len(m.order) /\ position >= 0
    THEN m.order[position + 1] ELSE EmptyKey

\* The calls f(k, v) Range(f) makes when f returns false on its j-th call
\* and true before: nothing on a nil items map, else the entries of order
\* with their values up to the first false.
Range(m, j) ==
    IF ~m.alloc THEN <<>>
    ELSE [i \in 1..(IF j < Len(m.order) THEN j ELSE Len(m.order)) |->
             <<m.order[i], MapGet(m.items, m.order[i])>>]

\* for k, v := range m.All(): the yield calls, m.Range(yield)
All(m, j) == Range(m, j)

\* The keys KeysIter() yields when yield returns false on its j-th call.
KeysIter(m, j) ==
    IF ~m.alloc THEN <<>>
    ELSE [i \in 1..(IF j < Len(m.order) THEN j ELSE Len(m.order)) |->
             m.order[i]]

\* The values ValuesIter() yields when yield returns false on its j-th call.
ValuesIter(m, j) ==
    IF ~m.alloc THEN <<>>
    ELSE [i \in 1..(IF j < Len(m.order) THEN j ELSE Len(m.order)) |->
             MapGet(m.items, m.order[i])]

\* m.items.Equal(m2), m2 another SliceMap: false when len(m.items) differs
\* from m2.Len(), else whether every pair m2.Range visits is a key of
\* m.items with an equal value.
Equal(m, m2) ==
    IF MapLen(m.items) # LenOf(m2) THEN FALSE
    ELSE \A i \in DOMAIN Range(m2, Len(m2.order) + 1) :
             LET call == Range(m2, Len(m2.order) + 1)[i]
             IN  call[1] \in DOMAIN m.items /\ m.items[call[1]] = call[2]

\* fmt.Sprintf(`%#v:%#v,`, k, v) for each entry Range visits, as tokens:
\* the digits of the key, ":", the digits of the value, ",".
RECURSIVE StringEntries(_)
StringEntries(calls) ==
    IF calls = <<>> THEN <<>>
    ELSE <<ToString(Head(calls)[1]), ":", ToString(Head(calls)[2]), ",">>
             \o StringEntries(Tail(calls))

\* strings.TrimRight(s, ","): s without its trailing "," tokens.
RECURSIVE TrimRight(_)
TrimRight(s) ==
    IF s # <<>> /\ s[Len(s)] = "," THEN TrimRight(SubSeq(s, 1, Len(s) - 1))
    ELSE s

\* String(): "{", the entries in Range order, "}", as tokens.
String(m) ==
    TrimRight(<<"{">> \o StringEntries(Range(m, Len(m.order) + 1))) \o <<"}">>

\* ----------------------------------------------------- the nil *SliceMap
\* The calls on a nil *SliceMap, by kind.
NilReads ==
    {"nil.Get", "nil.Load", "nil.Has", "nil.GetAt", "nil.GetKeyAt",
     "nil.Keys", "nil.Values", "nil.Len", "nil.Range", "nil.All",
     "nil.KeysIter", "nil.ValuesIter", "nil.Equal", "nil.String",
     "nil.MarshalBinary", "nil.MarshalJSON", "nil.Clone"}

NilWrites ==
    {"nil.Set", "nil.SetAt", "nil.SetSortFunc", "nil.Delete",
     "nil.DeleteFunc", "nil.Clear", "nil.Copy", "nil.Insert",
     "nil.UnmarshalBinary", "nil.UnmarshalJSON"}

\* The calls that take a map or a sequence of pairs.
NilTakesMap == {"nil.Equal", "nil.Copy", "nil.Insert"}

\* A nil *SliceMap on which every call panics.
OnNilFaults(op, in) == [panic |-> PanicNilReceiver, ret |-> <<>>]

\* What a method does when m == nil, as how it ends and the values it
\* returns. in is the argument of Equal, Copy and Insert: a nil interface
\* (or nil iter.Seq2) when in.nil, the SliceMap in.m (or its All())
\* otherwise. A method without a test for nil panics where it first reads
\* a field of m.
OnNil(op, in) ==
    CASE op \in {"nil.Get", "nil.GetAt", "nil.Delete"} ->
             [panic |-> NoPanic, ret |-> <<ZeroV>>]
      [] op = "nil.Load" -> [panic |-> NoPanic, ret |-> <<ZeroV, FALSE>>]
      [] op = "nil.Has" -> [panic |-> NoPanic, ret |-> <<FALSE>>]
      [] op = "nil.GetKeyAt" -> [panic |-> NoPanic, ret |-> <<EmptyKey>>]
      [] op = "nil.Len" -> [panic |-> NoPanic, ret |-> <<0>>]
      [] op \in {"nil.Keys", "nil.Values", "nil.Range", "nil.All",
                 "nil.KeysIter", "nil.ValuesIter", "nil.String",
                 "nil.Clear"} ->
             [panic |-> NoPanic, ret |-> <<>>]
      [] op = "nil.Equal" ->
             [panic |-> NoPanic, ret |-> <<in.nil \/ LenOf(in.m) = 0>>]
      [] op \in {"nil.MarshalBinary", "nil.MarshalJSON"} ->
             [panic |-> NoPanic, ret |-> <<"nil", "nil">>]
      [] op \in {"nil.Clone", "nil.SetAt", "nil.DeleteFunc"} ->
             [panic |-> PanicNilPointer, ret |-> <<>>]
      [] op \in {"nil.Set", "nil.SetSortFunc", "nil.UnmarshalBinary",
                 "nil.UnmarshalJSON"} ->
             [panic |-> PanicNilReceiver, ret |-> <<>>]
      [] op \in {"nil.Copy", "nil.Insert"} ->
             [panic |-> IF in.nil THEN PanicNilPointer
                        ELSE IF Range(in.m, Len(in.m.order) + 1) = <<>>
                             THEN NoPanic ELSE PanicNilReceiver,
              ret |-> <<>>]

\* ------------------------------------------------------------------ sets
\* for k, v := range pairs { m[k] = v } on a Go map.
RECURSIVE MapSetEach(_, _)
MapSetEach(its, pairs) ==
    IF pairs = <<>> THEN its
    ELSE MapSetEach(MapSet(its, Head(pairs).key, Head(pairs).val),
                    Tail(pairs))

\* A Set[K] (and the Set an OrderedSet embeds): items, a StdMap[K, struct{}]
\* with alloc = items != nil.
NewSet == [items |-> EmptyMap, alloc |-> FALSE]

SetLen(s) == MapLen(s.items)

SetHas(s, k) == IF SetLen(s) = 0 THEN FALSE ELSE k \in DOMAIN s.items

\* Add(k ...K): the map is made if it is nil, then every value is set.
RECURSIVE SetAdd(_, _)
SetAdd(s, ks) ==
    IF ks = <<>> THEN [s EXCEPT !.alloc = TRUE]
    ELSE SetAdd([s EXCEPT !.items = MapSet(@, Head(ks), ZeroV)], Tail(ks))

SetDelete(s, k) ==
    IF SetLen(s) = 0 THEN s ELSE [s EXCEPT !.items = MapDelete(@, k)]

\* The slices Set.Values() can return: the keys in any map range order.
SetValues(s) == MapRanges(s.items)

\* OrderedSet.Values(): the keys, sorted with slices.Sort.
OrderedSetValues(s) ==
    CHOOSE q \in MapRanges(s.items) :
        \A i \in 1..(Len(q) - 1) : q[i] < q[i + 1]

\* slices.Sort that leaves the slice as it is.
SlicesSortNone(q) == q

\* slices.Sort(v) on a slice of cmp.Ordered values, as an insertion sort:
\* each value in turn goes before the first sorted value that is not less.
RECURSIVE SlicesSort(_)
SlicesSort(q) ==
    IF q = <<>> THEN <<>>
    ELSE LET t == SlicesSort(SubSeq(q, 1, Len(q) - 1))
             x == q[Len(q)]
             n == Cardinality({i \in DOMAIN t : t[i] < x})
         IN  SubSeq(t, 1, n) \o <<x>> \o SubSeq(t, n + 1, Len(t))

\* OrderedSet.Values() when m.items.Keys() returns the keys as q: nil for
\* an empty set, else the sorted slice.
OrderedSetValuesFrom(s, q) == IF SetLen(s) = 0 THEN <<>> ELSE SlicesSort(q)

\* The values OrderedSet.Range(f) calls f with, f returning false at its
\* call number stop: those of Values() up to that call.
OrderedSetRange(s, q, stop) ==
    LET values == OrderedSetValuesFrom(s, q)
    IN  SubSeq(values, 1, IF stop < Len(values) THEN stop ELSE Len(values))

\* The methods of an OrderedSet that write, which call those of its Set:
\* a.key the value, a.src the values of the set or sequence passed as the
\* keys of its pairs, a.del the values the predicate accepts.
OrderedSetCall(op, s, a) ==
    CASE op = "Add" -> SetAdd(s, <<a.key>>)
      [] op = "Delete" -> SetDelete(s, a.key)
      [] op = "Clear" -> [items |-> EmptyMap, alloc |-> FALSE]
      [] op = "Copy" ->
             IF a.src = <<>> THEN s
             ELSE [items |-> MapSetEach(s.items,
                                 [i \in DOMAIN a.src |->
                                     [key |-> a.src[i].key, val |-> ZeroV]]),
                   alloc |-> TRUE]
      [] op = "Insert" ->
             [items |-> MapSetEach(s.items,
                            [i \in DOMAIN a.src |->
                                [key |-> a.src[i].key, val |-> ZeroV]]),
              alloc |-> TRUE]
      [] op = "DeleteFunc" ->
             IF SetLen(s) = 0 THEN s
             ELSE [s EXCEPT !.items = [x \in (DOMAIN @) \ a.del |-> @[x]]]
      [] OTHER -> s

\* for _, v2 := range v { m.Add(v2) }
RECURSIVE SetAddEach(_, _)
SetAddEach(s, v) ==
    IF v = <<>> THEN s ELSE SetAddEach(SetAdd(s, <<Head(v)>>), Tail(v))

\* Set.UnmarshalJSON with json.Unmarshal(in, &v) leaving data.v in v: the
\* values are added whatever the error is.
SetUnmarshalJSON(s, data) == SetAddEach(s, data.v)

\* A SliceSet is a SliceMap[K, struct{}]: every value is the zero value.
\* Add(k ...K): m.sm.Set(i, struct{}{}) for each value, up to a panic.
SliceSetAdd(m, ks) ==
    SetAll(m, [i \in DOMAIN ks |-> [key |-> ks[i], val |-> ZeroV]])

SliceSetLen(m) == LenOf(m)

SliceSetHas(m, k) == IF SliceSetLen(m) = 0 THEN FALSE ELSE Has(m, k)

SliceSetDelete(m, k) == IF SliceSetLen(m) = 0 THEN m ELSE Delete(m, k)

\* SliceSet.Values(): nil for an empty set, else m.sm.Keys().
SliceSetValues(m) == IF SliceSetLen(m) = 0 THEN <<>> ELSE Keys(m)

\* SliceSet.Clone: m1 := NewSliceSet[K](), then m1.Add(i) for each value
\* of m.All(), which ranges over m.Values(); m1 gets no sort function.
SliceSetClone(m) == SliceSetAdd(NewSliceMap, SliceSetValues(m))

\* The sort functions of a SliceSet compare the elements alone.
SliceSetSortFuncs == {"byKey", "byGroup"}

\* SetSortFunc(f): nil is passed on, f is wrapped as a function of the keys.
SliceSetSetSortFunc(m, f) == SetSortFunc(m, f)

\* SliceSet.UnmarshalJSON: as Set.UnmarshalJSON, with SliceSet.Add.
SliceSetUnmarshalJSON(m, data) == SliceSetAdd(m, data.v)

\* ------------------------------------------------ SafeSliceMap, SafeMap
\* The two concurrency-safe maps: a SafeSliceMap holds a sync.RWMutex and a
\* SliceMap, a SafeMap a sync.RWMutex and a StdMap.
SafeKinds == {"SafeSliceMap", "SafeMap"}

\* The methods that call Lock().
TakesLock(k) ==
    IF k = "SafeMap"
    THEN {"Clear", "Set", "Delete", "Copy", "UnmarshalBinary",
          "UnmarshalJSON", "Insert", "DeleteFunc"}
    ELSE {"SetSortFunc", "Set", "SetAt", "Delete", "UnmarshalBinary",
          "UnmarshalJSON", "Clear", "DeleteFunc"}

\* The methods that call RLock(). Get and Has of a SafeMap are Load, All is
\* Range, String of a SafeSliceMap is Range.
TakesRLock(k) ==
    IF k = "SafeMap"
    THEN {"Load", "Values", "Keys", "Len", "Range", "Equal",
          "MarshalBinary", "MarshalJSON", "String", "KeysIter",
          "ValuesIter", "Clone"}
    ELSE {"Get", "Load", "Has", "GetAt", "GetKeyAt", "Values", "Keys",
          "Len", "MarshalBinary", "MarshalJSON", "Range", "Equal",
          "KeysIter", "ValuesIter", "Clone"}

\* The methods that test m.items == nil (m.sm.items == nil) before they
\* lock.
Prechecks(k) ==
    IF k = "SafeMap"
    THEN {"Clear", "Load", "Values", "Keys", "Len", "Range", "Copy",
          "KeysIter", "ValuesIter"}
    ELSE {"Range", "KeysIter", "ValuesIter"}

\* No method defers its unlock.
DefersNone(k) == {}

\* The methods that unlock in a defer; the others unlock after the access.
Defers(k) ==
    IF k = "SafeMap"
    THEN {"Range", "Copy", "Equal", "MarshalBinary", "UnmarshalBinary",
          "MarshalJSON", "UnmarshalJSON", "String", "KeysIter",
          "ValuesIter", "Insert", "Clone", "DeleteFunc"}
    ELSE (TakesLock(k) \cup TakesRLock(k)) \ {"Clear"}

\* The methods that call a function of the caller for each entry while
\* they hold the lock.
CallsBack == {"Range", "KeysIter", "ValuesIter", "DeleteFunc"}

\* The goroutines that call the map, and no goroutine.
Goroutines == {"g1", "g2"}
NoG == "none"

\* The zero sync.RWMutex.
Unlocked == [writer |-> NoG, readers |-> [g \in Goroutines |-> 0]]

\* The data the goroutines decode: one entry, or an error.
SafeBinary ==
    {[err |-> "none", items |-> (EmptyKey :> ZeroV), order |-> <<EmptyKey>>],
     [err |-> "items", items |-> EmptyMap, order |-> <<>>]}

SafeJSON ==
    {[err |-> "none", null |-> FALSE, items |-> (EmptyKey :> ZeroV)],
     [err |-> "syntax", null |-> FALSE, items |-> EmptyMap]}

\* What a method of a SafeSliceMap can leave of its SliceMap m, the
\* goroutines calling with the zero key, the zero value and index 0.
SafeSliceMapDoes(op, m) ==
    CASE op = "Set" -> {Set(m, EmptyKey, ZeroV)}
      [] op = "SetAt" -> {SetAt(m, 0, EmptyKey, ZeroV)}
      [] op = "Delete" -> {Delete(m, EmptyKey)}
      [] op = "Clear" -> {Clear(m)}
      [] op = "SetSortFunc" ->
             SetSortFunc(m, "byKey") \cup SetSortFunc(m, NilF)
      [] op = "UnmarshalBinary" ->
             {UnmarshalBinary(m, d) : d \in SafeBinary}
      [] op = "UnmarshalJSON" ->
             UNION {UnmarshalJSON(m, d) : d \in SafeJSON}
      [] op = "DeleteFunc" ->
             {DeleteFunc(m, del) : del \in SUBSET DOMAIN m.items}
      [] OTHER -> {m}

\* What a method of a SafeMap can leave of its StdMap, held in the items
\* of m: Copy and Insert get no pair or one, the two decoders assign what
\* was decoded whatever the error.
SafeMapDoes(op, m) ==
    CASE op = "Set" ->
             {[m EXCEPT !.items = MapSet(@, EmptyKey, ZeroV),
                        !.alloc = TRUE]}
      [] op = "Delete" -> {[m EXCEPT !.items = MapDelete(@, EmptyKey)]}
      [] op = "Clear" -> {[m EXCEPT !.items = EmptyMap, !.alloc = FALSE]}
      [] op = "Copy" ->
             IF ~m.alloc THEN {[m EXCEPT !.panic = PanicNilMap]}
             ELSE {m, [m EXCEPT !.items = MapSet(@, EmptyKey, ZeroV)]}
      [] op = "Insert" ->
             {m, IF ~m.alloc THEN [m EXCEPT !.panic = PanicNilMap]
                 ELSE [m EXCEPT !.items = MapSet(@, EmptyKey, ZeroV)]}
      [] op = "UnmarshalBinary" ->
             {[m EXCEPT !.items = d.items, !.alloc = (d.err = "none")] :
                 d \in SafeBinary}
      [] op = "UnmarshalJSON" ->
             {[m EXCEPT !.items = d.items, !.alloc = (d.err = "none")] :
                 d \in SafeJSON}
      [] op = "DeleteFunc" ->
             {[m EXCEPT !.items = [x \in (DOMAIN @) \ del |-> @[x]]] :
                 del \in SUBSET DOMAIN m.items}
      [] OTHER -> {m}

\* ---------------------------------------------------------- Map, SafeMap
\* new(Map), new(SafeMap): the items of both are a nil StdMap.
NewMap == [items |-> EmptyMap, alloc |-> FALSE]

\* What a call left: the StdMap, the value returned if the method returns
\* one, and the panic.
Left(its, al, rv, p) == [items |-> its, alloc |-> al, ret |-> rv, panic |-> p]

\* StdMap.UnmarshalBinary and StdMap.UnmarshalJSON: *m = v, whatever err.
StdMapUnmarshal(data) == Left(data.items, data.alloc, <<data.err>>, NoPanic)

\* The methods of a Map on its StdMap s with the arguments a: a.src the
\* pairs of the MapI or iter.Seq2 passed, a.del the keys the predicate
\* accepts, a.data what the bytes decode to.
MapCall(op, s, a) ==
    CASE op = "Set" -> Left(MapSet(s.items, a.key, a.val), TRUE, <<>>, NoPanic)
      [] op = "Delete" ->
             Left(MapDelete(s.items, a.key), s.alloc,
                  <<MapGet(s.items, a.key)>>, NoPanic)
      [] op = "Clear" -> Left(EmptyMap, FALSE, <<>>, NoPanic)
      [] op \in {"Copy", "Insert"} ->
             Left(MapSetEach(s.items, a.src), TRUE, <<>>, NoPanic)
      [] op = "DeleteFunc" ->
             Left([x \in (DOMAIN s.items) \ a.del |-> s.items[x]], s.alloc,
                  <<>>, NoPanic)
      [] op \in {"UnmarshalBinary", "UnmarshalJSON"} ->
             StdMapUnmarshal(a.data)
      [] OTHER -> Left(s.items, s.alloc, <<>>, NoPanic)

\* The methods of a SafeMap called by one goroutine: Insert assigns to
\* m.items[k] without making the map.
SafeMapCall(op, s, a) ==
    CASE op = "Set" -> Left(MapSet(s.items, a.key, a.val), TRUE, <<>>, NoPanic)
      [] op = "Delete" ->
             Left(MapDelete(s.items, a.key), s.alloc,
                  <<MapGet(s.items, a.key)>>, NoPanic)
      [] op = "Clear" -> Left(EmptyMap, FALSE, <<>>, NoPanic)
      [] op = "Copy" ->
             Left(MapSetEach(s.items, a.src), TRUE, <<>>, NoPanic)
      [] op = "Insert" ->
             IF ~s.alloc /\ a.src # <<>>
             THEN Left(s.items, s.alloc, <<>>, PanicNilMap)
             ELSE Left(MapSetEach(s.items, a.src), s.alloc, <<>>, NoPanic)
      [] op = "DeleteFunc" ->
             Left([x \in (DOMAIN s.items) \ a.del |-> s.items[x]], s.alloc,
                  <<>>, NoPanic)
      [] op \in {"UnmarshalBinary", "UnmarshalJSON"} ->
             StdMapUnmarshal(a.data)
      [] OTHER -> Left(s.items, s.alloc, <<>>, NoPanic)

\* The methods of a SliceMap with the same arguments.
SliceMapCall(op, m, a) ==
    CASE op = "Set" -> Set(m, a.key, a.val)
      [] op = "Delete" -> Delete(m, a.key)
      [] op = "Clear" -> Clear(m)
      [] op = "Copy" -> Copy(m, a.src)
      [] op = "Insert" -> Insert(m, a.src)
      [] op = "DeleteFunc" -> DeleteFunc(m, a.del)
      [] OTHER -> m

\* The methods of a SafeSliceMap called by one goroutine: each locks and
\* calls the method of its SliceMap, Copy and Insert call Set per pair.
SafeSliceMapCall(op, m, a) ==
    CASE op \in {"Copy", "Insert"} -> SetAll(m, a.src)
      [] OTHER -> SliceMapCall(op, m, a)

\* ---------------------------------------------------------------- inputs
\* The call on which a callback returns false; MaxOrder + 1 is never.
Stops == 1..(MaxOrder + 1)

Pair == [key : Key, val : Val]

\* The pairs an iter.Seq2 passed to Insert yields.
Seqs == UNION {[1..n -> Pair] : n \in 0..MaxSeq}

\* The pairs of a MapI passed to Copy, in its Range order: no key twice.
Sources == {q \in Seqs : \A i, j \in DOMAIN q : q[i].key = q[j].key => i = j}

\* What gob decodes from the bytes MarshalBinary wrote for a SliceMap
\* without a sort function (any mapping, its keys in any order), and the
\* two ways the decoding can fail: in the first Decode, or in the second
\* after the first decoded a mapping.
BinaryData ==
    LET good == {[err |-> "none",
                  items |-> [i \in {q[j].key : j \in DOMAIN q} |->
                                (CHOOSE x \in {q[j] : j \in DOMAIN q} :
                                    x.key = i).val],
                  order |-> [j \in DOMAIN q |-> q[j].key]] : q \in Sources}
    IN  good \cup {[err |-> "items", items |-> EmptyMap, order |-> <<>>]}
             \cup {[err |-> "order", items |-> d.items, order |-> <<>>] :
                      d \in good}

\* What json.Unmarshal decodes into a map[K]V: an object, null, or an error.
JSONData ==
    {[err |-> "none", null |-> FALSE, items |-> d.items] :
        d \in {b \in BinaryData : b.err = "none"}}
    \cup {[err |-> "none", null |-> TRUE, items |-> EmptyMap],
          [err |-> "syntax", null |-> FALSE, items |-> EmptyMap]}

\* What gob or json decodes into the map[K]V of a StdMap: a map, nil for
\* the JSON null, and on an error nil or the entries decoded before it.
StdData ==
    LET maps == {MapSetEach(EmptyMap, q) : q \in Sources}
    IN  {[err |-> "none", items |-> d, alloc |-> TRUE] : d \in maps}
        \cup {[err |-> "none", items |-> EmptyMap, alloc |-> FALSE],
              [err |-> "syntax", items |-> EmptyMap, alloc |-> FALSE]}
        \cup {[err |-> "type", items |-> d, alloc |-> TRUE] : d \in maps}

\* The arguments of a call of op.
NoArgs ==
    [key |-> EmptyKey, val |-> ZeroV, src |-> <<>>, del |-> {},
     data |-> [err |-> "none", items |-> EmptyMap, alloc |-> FALSE]]

ArgsOf(op) ==
    CASE op = "Set" ->
             {[NoArgs EXCEPT !.key = k, !.val = v] : k \in Key, v \in Val}
      [] op \in {"Delete", "Add"} ->
             {[NoArgs EXCEPT !.key = k] : k \in Key}
      [] op = "Copy" -> {[NoArgs EXCEPT !.src = q] : q \in Sources}
      [] op = "Insert" -> {[NoArgs EXCEPT !.src = q] : q \in Seqs}
      [] op = "DeleteFunc" -> {[NoArgs EXCEPT !.del = d] : d \in SUBSET Key}
      [] op \in {"UnmarshalBinary", "UnmarshalJSON"} ->
             {[NoArgs EXCEPT !.data = d] : d \in StdData}
      [] OTHER -> {NoArgs}

\* What json.Unmarshal leaves in a []K and returns: the elements of an
\* array (none for null and for []), nothing on a syntax error, and on a
\* type error the elements with the zero value for those it could not store.
JSONArrays ==
    LET slices == UNION {[1..n -> Key] : n \in 0..MaxSeq}
    IN  {[err |-> "none", v |-> q] : q \in slices}
            \cup {[err |-> "syntax", v |-> <<>>]}
            \cup {[err |-> "type", v |-> q] : q \in slices \ {<<>>}}

\* ---------------------------------------------------------------- state
\* items, alloc, order, lessF: the fields of the SliceMap. panic: how the
\* last call ended. clone: the SliceMap Clone() returned, a new one before;
\* sameItems: whether clone.items and items are one map object. last, arrival: history variables (the name of the last
\* call; the present keys in the order of their latest insertion as a key
\* that was not present).
\* set: a Set[K], or the Set of an OrderedSet. ret: what the last call on a
\* nil *SliceMap returned (val), and whether its argument was nil (nilArg).
\* std: the StdMap of a Map, which a SafeMap called by one goroutine holds
\* too.
\* kind: whether the map the goroutines call is a SafeSliceMap, whose
\* SliceMap the fields above then are, or a SafeMap, whose StdMap is items.
\* mu: its sync.RWMutex, as the goroutine holding the write lock and the
\* read locks held by each goroutine. stack: the calls each goroutine is
\* in, the innermost last, each with its method (op), its position (pc:
\* "check" about to test items == nil, "lock" in Lock() or RLock(),
\* "held" past it) and the number of calls of the caller's function it
\* has seen return (i).
VARIABLES items, alloc, order, lessF, panic, last, arrival, clone, sameItems,
          set, ret, std, kind, mu, stack

vars ==
    <<items, alloc, order, lessF, panic, last, arrival, clone, sameItems,
      set, ret, std, kind, mu, stack>>

\* The variables of the concurrency-safe map.
safe == <<kind, mu, stack>>

\* The variables a call on the SliceMap or on its clone leaves alone.
aux == <<set, ret, std, kind, mu, stack>>

\* The SliceMap the variables hold, at the start of a call.
Self ==
    [items |-> items, alloc |-> alloc, order |-> order, lessF |-> lessF,
     panic |-> NoPanic]

RangeOf(s) == {s[i] : i \in DOMAIN s}

\* arrival is kept where the history is one of Set and Delete calls alone;
\* elsewhere it is not recorded.
Untracked == <<0 - 1>>

\* arrival after Set(key, val) or Delete(key) made the mapping its: a key
\* that was absent and is written comes last, a deleted key leaves.
Arrive(arr, its, touched) ==
    IF arr = Untracked THEN Untracked
    ELSE LET kept == SelectSeq(arr, LAMBDA k : k \in DOMAIN its)
         IN  IF touched # <<>> /\ Head(touched) \in DOMAIN its
                /\ Head(touched) \notin RangeOf(kept)
             THEN Append(kept, Head(touched)) ELSE kept

\* A call ends: the fields are what it left, within the modelled size.
Return(m, op, touched) ==
    /\ Len(m.order) <= MaxOrder
    /\ items' = m.items
    /\ alloc' = m.alloc
    /\ order' = m.order
    /\ lessF' = m.lessF
    /\ panic' = m.panic
    /\ last' = op
    /\ arrival' = IF op \in {"Set", "Delete"}
                  THEN Arrive(arrival, m.items, touched) ELSE Untracked
    /\ clone' = [clone EXCEPT !.items = Seen(sameItems, op, m.items, @)]
    /\ sameItems' = (sameItems /\ op \notin Reassigns)
    /\ UNCHANGED aux

\* var m SliceMap / new(SliceMap) / NewSliceMap(), arrival not recorded
Init ==
    /\ items = NewSliceMap.items
    /\ alloc = NewSliceMap.alloc
    /\ order = NewSliceMap.order
    /\ lessF = NewSliceMap.lessF
    /\ panic = NoPanic
    /\ last = "new"
    /\ arrival = Untracked
    /\ clone = NewSliceMap
    /\ sameItems = FALSE
    /\ set = NewSet
    /\ ret = [nilArg |-> FALSE, val |-> <<>>]
    /\ std = NewMap
    /\ kind = "SafeSliceMap"
    /\ mu = Unlocked
    /\ stack = [g \in Goroutines |-> <<>>]

\* The same SliceMap with arrival recorded from the start.
InitFifo ==
    /\ items = NewSliceMap.items
    /\ alloc = NewSliceMap.alloc
    /\ order = NewSliceMap.order
    /\ lessF = NewSliceMap.lessF
    /\ panic = NoPanic
    /\ last = "new"
    /\ arrival = <<>>
    /\ clone = NewSliceMap
    /\ sameItems = FALSE
    /\ set = NewSet
    /\ ret = [nilArg |-> FALSE, val |-> <<>>]
    /\ std = NewMap
    /\ kind = "SafeSliceMap"
    /\ mu = Unlocked
    /\ stack = [g \in Goroutines |-> <<>>]

DoSet ==
    \E key \in Key, val \in Val :
        Return(Set(Self, key, val), "Set", <<key>>)

DoDelete ==
    \E key \in Key : Return(Delete(Self, key), "Delete", <<>>)

DoSetAt ==
    \E index \in Index, key \in Key, val \in Val :
        Return(SetAt(Self, index, key, val), "SetAt", <<>>)

DoSetSortFunc(funcs) ==
    \E f \in funcs : \E m \in SetSortFunc(Self, f) :
        Return(m, "SetSortFunc", <<>>)

DoClear == Return(Clear(Self), "Clear", <<>>)

DoDeleteFunc ==
    \E del \in SUBSET Key : Return(DeleteFunc(Self, del), "DeleteFunc", <<>>)

DoCopy == \E src \in Sources : Return(Copy(Self, src), "Copy", <<>>)

DoInsert == \E seq \in Seqs : Return(Insert(Self, seq), "Insert", <<>>)

DoUnmarshalBinary ==
    \E data \in BinaryData :
        Return(UnmarshalBinary(Self, data),
               Returned("UnmarshalBinary", data.err), <<>>)

\* gob-encode the SliceMap and decode the bytes into a new SliceMap, which
\* clone then is.
DoBinaryMarshal ==
    /\ \E stream \in MarshalBinary(Self) :
           clone' = UnmarshalBinary(NewSliceMap, GobDecode(stream))
    /\ sameItems' = FALSE
    /\ last' = "BinaryMarshal"
    /\ arrival' = Untracked
    /\ UNCHANGED <<items, alloc, order, lessF, panic>>
    /\ UNCHANGED aux

DoUnmarshalJSON ==
    \E data \in JSONData : \E m \in UnmarshalJSON(Self, data) :
        Return(m, Returned("UnmarshalJSON", data.err), <<>>)

\* clone = m.Clone()
DoClone ==
    /\ clone' = Clone(Self).m1
    /\ sameItems' = Clone(Self).sameItems
    /\ last' = "Clone"
    /\ arrival' = Untracked
    /\ UNCHANGED <<items, alloc, order, lessF, panic>>
    /\ UNCHANGED aux

\* A call on the clone ends: the clone is what the call left, and the
\* source sees the writes to a map it holds too.
ReturnClone(m, op) ==
    /\ Len(m.order) <= MaxOrder
    /\ clone' = m
    /\ items' = Seen(sameItems, op, m.items, items)
    /\ sameItems' = (sameItems /\ op \notin Reassigns)
    /\ last' = op
    /\ arrival' = Untracked
    /\ UNCHANGED <<alloc, order, lessF, panic>>
    /\ UNCHANGED aux

\* The clone at the start of a call on it.
TheClone == [clone EXCEPT !.panic = NoPanic]

DoCloneSet ==
    \E key \in Key, val \in Val :
        ReturnClone(Set(TheClone, key, val), "clone.Set")

DoCloneSetAt ==
    \E index \in Index, key \in Key, val \in Val :
        ReturnClone(SetAt(TheClone, index, key, val), "clone.SetAt")

DoCloneDelete ==
    \E key \in Key : ReturnClone(Delete(TheClone, key), "clone.Delete")

DoCloneDeleteFunc ==
    \E del \in SUBSET Key :
        ReturnClone(DeleteFunc(TheClone, del), "clone.DeleteFunc")

DoCloneClear == ReturnClone(Clear(TheClone), "clone.Clear")

\* Set, Delete and SetAt on a SliceMap that never gets a sort function.
NextPlain == DoSet \/ DoDelete \/ DoSetAt

SpecPlain == Init /\ [][NextPlain]_vars

\* Set and Delete alone: no sort function, no positional insert.
NextFifo == DoSet \/ DoDelete

SpecFifo == InitFifo /\ [][NextFifo]_vars

\* Set and Delete with any of the sort functions installed at any time.
NextSort == DoSetSortFunc(SortFuncs) \/ DoSet \/ DoDelete

SpecSort == Init /\ [][NextSort]_vars

\* Set and Delete with the sort function that compares keys.
NextKeySort == DoSetSortFunc({"byKey"}) \/ DoSet \/ DoDelete

SpecKeySort == Init /\ [][NextKeySort]_vars

\* Positional inserts on a SliceMap whose sort function comes and goes.
NextSetAt == DoSetSortFunc(SortFuncs \cup {NilF}) \/ DoSet \/ DoDelete \/ DoSetAt

SpecSetAt == Init /\ [][NextSetAt]_vars

\* A SliceMap built with Set, Delete and SetAt that gets a sort function
\* right after a SetAt that returned, and is then left alone.
NextPositional ==
    /\ lessF = NilF
    /\ \/ DoSet
       \/ DoDelete
       \/ DoSetAt
       \/ (last = "SetAt" /\ panic = NoPanic /\ DoSetSortFunc(SortFuncs))

SpecPositional == Init /\ [][NextPositional]_vars

\* A SliceMap that gets a sort function while it is new or just cleared,
\* and is then written with Set and emptied with Clear.
NextClear ==
    \/ (last \in {"new", "Clear"} /\ DoSetSortFunc(SortFuncs))
    \/ (lessF # NilF /\ DoSet)
    \/ (lessF # NilF /\ DoClear)

SpecClear == Init /\ [][NextClear]_vars

\* Set, Delete and Clear in any order, with a sort function set or removed
\* while the SliceMap is new or just cleared.
NextCleared ==
    \/ (last \in {"new", "Clear"} /\ DoSetSortFunc(SortFuncs \cup {NilF}))
    \/ DoSet
    \/ DoDelete
    \/ DoClear

SpecCleared == Init /\ [][NextCleared]_vars

\* A SliceMap that can get the key sort function while new is written with
\* Set and Delete and cloned; one call on the clone or on the source follows.
Building ==
    clone = NewSliceMap /\ last \in {"new", "SetSortFunc", "Set", "Delete"}

NextClone ==
    \/ (last = "new" /\ DoSetSortFunc({"byKey"}))
    \/ ((Building \/ last = "Clone") /\ DoSet)
    \/ ((Building \/ last = "Clone") /\ DoDelete)
    \/ (Building /\ DoClone)
    \/ (last = "Clone" /\ DoCloneSet)
    \/ (last = "Clone" /\ DoCloneSetAt)
    \/ (last = "Clone" /\ DoCloneDelete)
    \/ (last = "Clone" /\ DoCloneDeleteFunc)
    \/ (last = "Clone" /\ DoCloneClear)
    \/ (last = "Clone" /\ DoSetAt)
    \/ (last = "Clone" /\ DoDeleteFunc)
    \/ (last = "Clone" /\ DoClear)

SpecClone == Init /\ [][NextClone]_vars

\* A SliceMap that gets a sort function when new and has it removed, is
\* populated with Set and Delete calls while it has none, and gets one
\* again and has it removed again.
NextResort ==
    \/ (last = "new" /\ DoSetSortFunc(SortFuncs))
    \/ (lessF = NilF /\ last # "new" /\ DoSet)
    \/ (lessF = NilF /\ last # "new" /\ DoDelete)
    \/ (lessF # NilF /\ DoSetSortFunc({NilF}))
    \/ (lessF = NilF /\ last \in {"Set", "Delete"} /\ DoSetSortFunc(SortFuncs))

SpecResort == Init /\ [][NextResort]_vars

\* A call on the Set ends.
ReturnSet(s, op) ==
    /\ set' = s
    /\ last' = op
    /\ UNCHANGED <<items, alloc, order, lessF, panic, arrival, clone,
                   sameItems, ret, std>>
    /\ UNCHANGED safe

DoSetAdd == \E k \in Key : ReturnSet(SetAdd(set, <<k>>), "Set.Add")

DoSetDelete == \E k \in Key : ReturnSet(SetDelete(set, k), "Set.Delete")

DoSetUnmarshalJSON ==
    \E data \in JSONArrays :
        ReturnSet(SetUnmarshalJSON(set, data), "Set.UnmarshalJSON")

\* A call on the OrderedSet whose Set the variable set is.
DoOrderedSet(ops) ==
    \E op \in ops : \E a \in ArgsOf(op) :
        ReturnSet(OrderedSetCall(op, set, a), op)

\* The methods of an OrderedSet that write.
OrderedSetOps == {"Add", "Delete", "DeleteFunc", "Copy", "Insert", "Clear"}

\* Values() (All() ranges over the same slice) or Range(f) on the
\* OrderedSet, the map yielding its keys in some order and f returning
\* false at some call: ret holds the values returned or visited.
DoOrderedSetRead ==
    \E q \in MapRanges(set.items) : \E stop \in Stops :
        \E op \in {"Values", "Range"} :
            /\ ret' = [nilArg |-> FALSE,
                       val |-> IF op = "Values"
                               THEN OrderedSetValuesFrom(set, q)
                               ELSE OrderedSetRange(set, q, stop)]
            /\ last' = op
            /\ UNCHANGED <<items, alloc, order, lessF, panic, arrival, clone,
                           sameItems, set, std, kind, mu, stack>>

NextOrdered == DoOrderedSet(OrderedSetOps) \/ DoOrderedSetRead

SpecOrdered == Init /\ [][NextOrdered]_vars

\* The calls on a SliceSet, its SliceMap being the one of the variables.
DoSliceSetSetSortFunc ==
    \E f \in SliceSetSortFuncs \cup {NilF} :
        \E m \in SliceSetSetSortFunc(Self, f) :
            Return(m, "SliceSet.SetSortFunc", <<>>)

DoSliceSetAdd ==
    \E k \in Key : Return(SliceSetAdd(Self, <<k>>), "SliceSet.Add", <<>>)

DoSliceSetDelete ==
    \E k \in Key : Return(SliceSetDelete(Self, k), "SliceSet.Delete", <<>>)

DoSliceSetUnmarshalJSON ==
    \E data \in JSONArrays :
        Return(SliceSetUnmarshalJSON(Self, data), "SliceSet.UnmarshalJSON",
               <<>>)

\* A Set (or OrderedSet) and a SliceSet, each with its calls.
NextSets ==
    \/ DoSetAdd
    \/ DoSetDelete
    \/ DoSetUnmarshalJSON
    \/ DoSliceSetSetSortFunc
    \/ DoSliceSetAdd
    \/ DoSliceSetDelete
    \/ DoSliceSetUnmarshalJSON

SpecSets == Init /\ [][NextSets]_vars

\* var n *SliceMap; a call on n, with the SliceMap of the variables or nil
\* as the argument of a call that takes one.
DoNilCall(ops) ==
    \E op \in ops :
        \E in \in {[nil |-> FALSE, m |-> Self]}
                  \cup {[nil |-> TRUE, m |-> NewSliceMap] : x \in
                           IF op \in NilTakesMap THEN {1} ELSE {}} :
            /\ panic' = OnNil(op, in).panic
            /\ ret' = [nilArg |-> in.nil, val |-> OnNil(op, in).ret]
            /\ last' = op
            /\ UNCHANGED <<items, alloc, order, lessF, arrival, clone,
                           sameItems, set, std>>
            /\ UNCHANGED safe

\* A SliceMap without a sort function built with Set and Delete, and the
\* calls on a nil *SliceMap in between.
Called == last \in {"new", "Set", "Delete"}

NextNil ==
    \/ DoSet
    \/ DoDelete
    \/ (Called /\ DoNilCall(NilReads))
    \/ (Called /\ DoNilCall(NilWrites))

SpecNil == Init /\ [][NextNil]_vars

\* new(SafeSliceMap) or new(SafeMap).
InitSafe ==
    /\ items = NewSliceMap.items
    /\ alloc = NewSliceMap.alloc
    /\ order = NewSliceMap.order
    /\ lessF = NewSliceMap.lessF
    /\ panic = NoPanic
    /\ last = "new"
    /\ arrival = Untracked
    /\ clone = NewSliceMap
    /\ sameItems = FALSE
    /\ set = NewSet
    /\ ret = [nilArg |-> FALSE, val |-> <<>>]
    /\ std = NewMap
    /\ kind \in SafeKinds
    /\ mu = Unlocked
    /\ stack = [g \in Goroutines |-> <<>>]

\* The innermost call of g.
Top(g) == stack[g][Len(stack[g])]

\* The calls of g around the innermost.
Outer(g) == SubSeq(stack[g], 1, Len(stack[g]) - 1)

\* The call of op as it starts.
Frame(op) ==
    [op |-> op, pc |-> IF op \in Prechecks(kind) THEN "check" ELSE "lock",
     i |-> 0]

\* The number of entries an iterating method calls the caller's function
\* for: SliceMap.Range and the iterators visit nothing on a nil map.
Entries(op) ==
    IF kind = "SafeMap" THEN MapLen(items)
    ELSE IF op = "DeleteFunc" \/ alloc THEN Len(order) ELSE 0

\* g is in Lock(): it has announced itself and waits for the lock.
InLock(g) ==
    stack[g] # <<>> /\ Top(g).pc = "lock" /\ Top(g).op \in TakesLock(kind)

\* Lock() returning although goroutines hold read locks.
CanLockPastReaders(g) == mu.writer = NoG

\* Lock() returning although g itself holds a read lock.
CanLockReentrant(g) ==
    mu.writer = NoG /\ \A h \in Goroutines \ {g} : mu.readers[h] = 0

\* Lock() returns once no goroutine holds the lock in either mode.
CanLock(g) == mu.writer = NoG /\ \A h \in Goroutines : mu.readers[h] = 0

\* RLock() returns once no goroutine holds the write lock or is in Lock().
CanRLock(g) ==
    mu.writer = NoG /\ \A h \in Goroutines \ {g} : ~InLock(h)

\* Unlock() or RUnlock() by g in the method op.
Unlock(l, g, op) ==
    IF op \in TakesLock(kind) THEN [l EXCEPT !.writer = NoG]
    ELSE [l EXCEPT !.readers[g] = @ - 1]

\* The mutex after a panic has unwound the calls frames of g, the
\* innermost first: the deferred unlocks of the calls past their lock run.
RECURSIVE Unwound(_, _, _)
Unwound(l, g, frames) ==
    IF frames = <<>> THEN l
    ELSE LET f == frames[Len(frames)]
         IN  Unwound(IF f.pc = "held" /\ f.op \in Defers(kind)
                     THEN Unlock(l, g, f.op) ELSE l,
                     g, SubSeq(frames, 1, Len(frames) - 1))

\* The fields of the inner map are those of m.
Leaves(m) ==
    /\ items' = m.items
    /\ alloc' = m.alloc
    /\ order' = m.order
    /\ lessF' = m.lessF

\* A panic p ends every call of g.
Panics(g, p) ==
    /\ panic' = p
    /\ mu' = Unwound(mu, g, stack[g])
    /\ stack' = [stack EXCEPT ![g] = <<>>]

\* A call that returns without unlocking.
ReturnsLocked(g) ==
    /\ panic' = NoPanic
    /\ mu' = mu
    /\ stack' = [stack EXCEPT ![g] = Outer(g)]

\* The innermost call of g returns, past its unlock.
Returns(g) ==
    /\ panic' = NoPanic
    /\ mu' = Unlock(mu, g, Top(g).op)
    /\ stack' = [stack EXCEPT ![g] = Outer(g)]

\* g calls a method.
GoCall(g) ==
    /\ stack[g] = <<>>
    /\ \E op \in TakesLock(kind) \cup TakesRLock(kind) :
           stack' = [stack EXCEPT ![g] = <<Frame(op)>>]
    /\ UNCHANGED <<items, alloc, order, lessF, panic, last, arrival, clone,
                   sameItems, set, ret, std, kind, mu>>

\* The function g passed to an iterating method calls a method that
\* takes the write lock.
GoNested(g) ==
    /\ Len(stack[g]) = 1
    /\ Top(g).pc = "held" /\ Top(g).op \in CallsBack
    /\ Top(g).i < Entries(Top(g).op)
    /\ \E op \in TakesLock(kind) :
           stack' = [stack EXCEPT ![g] = Append(@, Frame(op))]
    /\ UNCHANGED <<items, alloc, order, lessF, panic, last, arrival, clone,
                   sameItems, set, ret, std, kind, mu>>

\* if m.items == nil { return }, without the lock; Copy of a SafeMap goes
\* on to make the map instead ("make").
GoCheck(g) ==
    /\ stack[g] # <<>> /\ Top(g).pc = "check"
    /\ IF alloc
       THEN /\ stack' = [stack EXCEPT ![g][Len(stack[g])].pc = "lock"]
            /\ UNCHANGED panic
       ELSE IF Top(g).op = "Copy"
       THEN /\ stack' = [stack EXCEPT ![g][Len(stack[g])].pc = "make"]
            /\ UNCHANGED panic
       ELSE /\ stack' = [stack EXCEPT ![g] = Outer(g)]
            /\ panic' = NoPanic
    /\ UNCHANGED <<items, alloc, order, lessF, last, arrival, clone,
                   sameItems, set, ret, std, kind, mu>>

\* m.items = make(map[K]V, in.Len()) in Copy of a SafeMap, without the
\* lock, after the test found a nil map.
GoMake(g) ==
    /\ stack[g] # <<>> /\ Top(g).pc = "make"
    /\ items' = EmptyMap
    /\ alloc' = TRUE
    /\ stack' = [stack EXCEPT ![g][Len(stack[g])].pc = "lock"]
    /\ UNCHANGED <<order, lessF, panic, last, arrival, clone, sameItems,
                   set, ret, std, kind, mu>>

\* Lock() or RLock() returns.
GoAcquire(g) ==
    /\ stack[g] # <<>> /\ Top(g).pc = "lock"
    /\ IF Top(g).op \in TakesLock(kind)
       THEN CanLock(g) /\ mu' = [mu EXCEPT !.writer = g]
       ELSE CanRLock(g) /\ mu' = [mu EXCEPT !.readers[g] = @ + 1]
    /\ stack' = [stack EXCEPT ![g][Len(stack[g])].pc = "held"]
    /\ UNCHANGED <<items, alloc, order, lessF, panic, last, arrival, clone,
                   sameItems, set, ret, std, kind>>

\* The function g passed to an iterating method is called for the next
\* entry: it returns for the iteration to go on, returns false (not the
\* predicate of DeleteFunc, whose result is the choice to delete), or
\* panics.
GoCallback(g) ==
    /\ stack[g] # <<>> /\ Top(g).pc = "held" /\ Top(g).op \in CallsBack
    /\ Top(g).i < Entries(Top(g).op)
    /\ \/ /\ stack' = [stack EXCEPT ![g][Len(stack[g])].i = @ + 1]
          /\ UNCHANGED <<panic, mu>>
       \/ Top(g).op # "DeleteFunc" /\ Returns(g)
       \/ Panics(g, PanicCallback)
    /\ UNCHANGED <<items, alloc, order, lessF, last, arrival, clone,
                   sameItems, set, ret, std, kind>>

\* The access of the innermost call of g to the inner map, the iteration
\* of an iterating method being over: the method returns or panics.
GoAccess(g) ==
    /\ stack[g] # <<>> /\ Top(g).pc = "held"
    /\ Top(g).op \in CallsBack => Top(g).i >= Entries(Top(g).op)
    /\ \E m \in IF kind = "SafeMap" THEN SafeMapDoes(Top(g).op, Self)
                  ELSE SafeSliceMapDoes(Top(g).op, Self) :
           /\ Leaves(m)
           /\ IF m.panic = NoPanic THEN Returns(g) ELSE Panics(g, m.panic)
    /\ UNCHANGED <<last, arrival, clone, sameItems, set, ret, std, kind>>

\* Two goroutines calling one SafeSliceMap or SafeMap, no function of the
\* caller calling the map again.
NextSafe ==
    \E g \in Goroutines :
        \/ GoCall(g)
        \/ GoCheck(g)
        \/ GoMake(g)
        \/ GoAcquire(g)
        \/ GoCallback(g)
        \/ GoAccess(g)

SpecSafe == InitSafe /\ [][NextSafe]_vars

\* The same, every goroutine that can take a step taking one, and a
\* goroutine in Lock() or RLock() getting the lock if it is free again and
\* again.
SpecSafeFair ==
    /\ SpecSafe
    /\ \A g \in Goroutines :
           /\ WF_vars(GoCheck(g) \/ GoMake(g) \/ GoCallback(g) \/ GoAccess(g))
           /\ SF_vars(GoAcquire(g))

\* The same calls, and the functions of the caller calling the map.
NextReentrant ==
    \E g \in Goroutines :
        \/ GoCall(g)
        \/ GoNested(g)
        \/ GoCheck(g)
        \/ GoMake(g)
        \/ GoAcquire(g)
        \/ GoCallback(g)
        \/ GoAccess(g)

SpecReentrant == InitSafe /\ [][NextReentrant]_vars

\* A call with the same arguments on a SliceMap and on a Map, each from
\* the state its calls so far left: ret holds what the two returned.
DoEach(ops) ==
    \E op \in ops : \E a \in ArgsOf(op) :
        LET m == SliceMapCall(op, Self, a)
            s == MapCall(op, std, a)
        IN  /\ Len(m.order) <= MaxOrder
            /\ Leaves(m)
            /\ panic' = m.panic
            /\ std' = [items |-> s.items, alloc |-> s.alloc]
            /\ ret' = [nilArg |-> FALSE,
                       val |-> <<IF op = "Delete" THEN <<DeleteVal(Self, a.key)>>
                                 ELSE <<>>, s.ret>>]
            /\ last' = op
            /\ UNCHANGED <<arrival, clone, sameItems, set, kind, mu, stack>>

\* The methods the variants are compared on.
VariantOps == {"Set", "Delete", "Clear", "Copy", "DeleteFunc"}

\* A new Map and a new SliceMap, which may get a sort function first, and
\* the same calls on both until one panics.
NextVariants ==
    \/ (last = "new" /\ DoSetSortFunc(SortFuncs))
    \/ (panic = NoPanic /\ DoEach(VariantOps))

SpecVariants == Init /\ [][NextVariants]_vars

\* The methods that copy or encode the whole map.
Snapshots == {"Clone", "MarshalBinary", "MarshalJSON"}

\* The methods of the goroutines that write while others copy or encode.
SnapshotWrites == {"Set", "SetAt", "Delete", "Clear"}

\* g calls one of the methods ops.
GoCallOf(g, ops) ==
    /\ stack[g] = <<>>
    /\ \E op \in ops : stack' = [stack EXCEPT ![g] = <<Frame(op)>>]
    /\ UNCHANGED <<items, alloc, order, lessF, panic, last, arrival, clone,
                   sameItems, set, ret, std, kind, mu>>

\* m1.sm.items = m.sm.items.Clone(), the first Encode of MarshalBinary,
\* the entries MarshalJSON reads: the mapping is read.
GoSnapItems(g) ==
    /\ stack[g] # <<>> /\ Top(g).pc = "held" /\ Top(g).op \in Snapshots
    /\ Top(g).i = 0
    /\ clone' = [clone EXCEPT !.items = items, !.alloc = alloc]
    /\ stack' = [stack EXCEPT ![g][Len(stack[g])].i = 1]
    /\ UNCHANGED <<items, alloc, order, lessF, panic, last, arrival,
                   sameItems, set, ret, std, kind, mu>>

\* m1.sm.order = slices.Clone(m.sm.order) and m1.sm.lessF = m.sm.lessF,
\* the second Encode of MarshalBinary: the key slice is read, and the
\* method returns.
GoSnapOrder(g) ==
    /\ stack[g] # <<>> /\ Top(g).pc = "held" /\ Top(g).op \in Snapshots
    /\ Top(g).i = 1
    /\ clone' = [clone EXCEPT !.order = order,
                              !.lessF = IF Top(g).op = "Clone" THEN lessF
                                        ELSE NilF]
    /\ Returns(g)
    /\ UNCHANGED <<items, alloc, order, lessF, last, arrival, sameItems,
                   set, ret, std, kind>>

\* Goroutines that call Set, SetAt, Delete and Clear of one SafeSliceMap or
\* SafeMap while others clone or encode it.
NextSnapshot ==
    \E g \in Goroutines :
        \/ GoCallOf(g, SnapshotWrites)
        \/ GoCallOf(g, Snapshots)
        \/ GoCheck(g)
        \/ GoAcquire(g)
        \/ GoSnapItems(g)
        \/ GoSnapOrder(g)
        \/ (stack[g] # <<>> /\ Top(g).op \notin Snapshots /\ GoAccess(g))

SpecSnapshot == InitSafe /\ [][NextSnapshot]_vars

\* Goroutines that call Set and Copy (Merge is Copy) of one new SafeMap.
NextLost ==
    /\ kind = "SafeMap"
    /\ \E g \in Goroutines :
           \/ GoCallOf(g, {"Set", "Copy"})
           \/ GoCheck(g)
           \/ GoMake(g)
           \/ GoAcquire(g)
           \/ GoAccess(g)

SpecLost == InitSafe /\ [][NextLost]_vars

\* The pairs of the map passed to Copy or of the sequence passed to
\* Insert: two keys.
CopySource ==
    <<[key |-> EmptyKey, val |-> ZeroV], [key |-> EmptyKey + 1, val |-> ZeroV]>>

\* The methods that call m.Set for each pair they are passed.
Copies == {"Copy", "Insert"}

\* The methods of the goroutines that run while another copies.
CopyOthers == {"Len", "Range", "Delete"}

\* g calls Copy or Insert of a SafeSliceMap, which take no lock.
GoCopy(g) ==
    /\ kind = "SafeSliceMap"
    /\ stack[g] = <<>>
    /\ \A h \in Goroutines : stack[h] # <<>> => stack[h][1].op \notin Copies
    /\ \E op \in Copies :
           stack' = [stack EXCEPT ![g] = <<[op |-> op, pc |-> "loop", i |-> 0]>>]
    /\ UNCHANGED <<items, alloc, order, lessF, panic, last, arrival, clone,
                   sameItems, set, ret, std, kind, mu>>

\* The loop of Copy or Insert calls m.Set(k, v) for the next pair, or
\* ends.
GoCopyNext(g) ==
    /\ Len(stack[g]) = 1 /\ Top(g).op \in Copies
    /\ IF Top(g).i < Len(CopySource)
       THEN stack' = [stack EXCEPT ![g] =
                         <<[Top(g) EXCEPT !.i = @ + 1],
                           [op |-> "Set", pc |-> "lock", i |-> Top(g).i + 1]>>]
       ELSE stack' = [stack EXCEPT ![g] = <<>>]
    /\ UNCHANGED <<items, alloc, order, lessF, panic, last, arrival, clone,
                   sameItems, set, ret, std, kind, mu>>

\* The Set called by Copy or Insert for pair i, past its Lock(), writes
\* the pair and returns.
GoCopySet(g) ==
    /\ Len(stack[g]) = 2 /\ stack[g][1].op \in Copies
    /\ Top(g).pc = "held"
    /\ LET m == Set(Self, CopySource[Top(g).i].key, CopySource[Top(g).i].val)
       IN  /\ Leaves(m)
           /\ IF m.panic = NoPanic THEN Returns(g) ELSE Panics(g, m.panic)
    /\ UNCHANGED <<last, arrival, clone, sameItems, set, ret, std, kind>>

\* One goroutine copies two pairs into a SafeSliceMap while others read
\* it and delete from it.
NextCopy ==
    \E g \in Goroutines :
        \/ GoCopy(g)
        \/ GoCopyNext(g)
        \/ GoCopySet(g)
        \/ GoCallOf(g, CopyOthers)
        \/ GoCheck(g)
        \/ GoAcquire(g)
        \/ GoCallback(g)
        \/ (Len(stack[g]) = 1 /\ GoAccess(g))

SpecCopy == Init /\ [][NextCopy]_vars

\* A SliceMap without a sort function or with the one by key, built with
\* Set and Delete, that is gob-encoded and decoded into a new SliceMap.
NextCodec ==
    \/ (last = "new" /\ DoSetSortFunc({"byKey"}))
    \/ (clone = NewSliceMap /\ DoSet)
    \/ (clone = NewSliceMap /\ DoDelete)
    \/ (last \in {"Set", "Delete"} /\ DoBinaryMarshal)

SpecCodec == Init /\ [][NextCodec]_vars

\* A SliceMap without a sort function or with the one by key, given up to
\* MaxSeq keys with Set, that is the target of one decoding.
NextDecode ==
    \/ (last = "new" /\ DoSetSortFunc({"byKey"}))
    \/ (last \in {"new", "SetSortFunc", "Set"} /\ MapLen(items) < MaxSeq
           /\ DoSet)
    \/ (last = "Set" /\ DoUnmarshalBinary)
    \/ (last = "Set" /\ DoUnmarshalJSON)

SpecDecode == Init /\ [][NextDecode]_vars

\* The calls that change a SliceMap whose order a sort function can keep.
Next ==
    \/ DoSetSortFunc(SortFuncs \cup {NilF})
    \/ DoSet
    \/ DoDelete
    \/ DoDeleteFunc
    \/ DoClear
    \/ DoCopy
    \/ DoInsert
    \/ DoUnmarshalBinary
    \/ DoUnmarshalJSON

Spec == Init /\ [][Next]_vars

\* ---------------------------------------------------------------- claims
NoDuplicate(s) == \A i, j \in DOMAIN s : s[i] = s[j] => i = j

Occurrences(s, k) == Cardinality({i \in DOMAIN s : s[i] = k})

\* len(Keys()) == len(Values()) == Len(), no key twice in Keys(), and every
\* key of Keys() is Has()-true with Get() equal to the value at its index.
Bijection(m) ==
    /\ Len(Keys(m)) = Len(Values(m))
    /\ Len(Keys(m)) = LenOf(m)
    /\ NoDuplicate(Keys(m))
    /\ \A i \in DOMAIN Keys(m) :
          Has(m, Keys(m)[i]) /\ Get(m, Keys(m)[i]) = Values(m)[i]

\* The keys of a mapping in ascending order.
RECURSIVE Ascending(_)
Ascending(ks) ==
    IF ks = {} THEN <<>>
    ELSE LET least == CHOOSE k \in ks : \A x \in ks : k <= x
         IN  <<least>> \o Ascending(ks \ {least})

\* C1: with no sort function, after every call of a sequence of Set, Delete
\* and SetAt calls that returned, starting from a new SliceMap,
\* len(Keys()) == len(Values()) == Len(), Keys() has no duplicate and every
\* key of Keys() is Has()-true with Get() equal to its entry of Values().
C1_Bijection == panic = NoPanic => Bijection(Self)

\* C2: with a sort function installed, after every Set and Delete Keys()
\* holds every key of the mapping exactly once and no other key.
C2_SortedBijection ==
    lessF # NilF =>
        /\ NoDuplicate(Keys(Self))
        /\ RangeOf(Keys(Self)) = DOMAIN items

\* C3: whenever a sort function is installed, after every public call no
\* adjacent entries (a, b) of Keys() have less(b, a, val(b), val(a)).
C3_Sorted == lessF # NilF => IsSortedBy(lessF, items, Keys(Self))

\* C4: once the sort function that compares keys is installed, after every
\* further Set and Delete Keys() is the present keys in ascending order and
\* Values() is their values in that order.
C4_KeyOrder ==
    lessF = "byKey" =>
        /\ Keys(Self) = Ascending(DOMAIN items)
        /\ Values(Self) =
              [i \in 1..MapLen(items) |-> items[Ascending(DOMAIN items)[i]]]

\* C4 witness: a Set under the key sort function has run and three keys
\* are present.
C4_Witness ==
    /\ lessF = "byKey"
    /\ last = "Set"
    /\ panic = NoPanic
    /\ Len(order) = 3 /\ MapLen(items) = 3

\* C5: with no sort function and no SetAt, after every Set and Delete
\* Keys() is the present keys in the order of their latest insertion as a
\* key that was not present.
C5_Fifo ==
    /\ Keys(Self) = arrival
    /\ RangeOf(Keys(Self)) = DOMAIN items

\* C5 witness: after a Set three keys are present in an order that is
\* neither ascending nor descending.
C5_Witness ==
    /\ last = "Set"
    /\ arrival # Untracked
    /\ Len(order) = 3
    /\ order[1] > order[2] /\ order[3] < order[1] /\ order[3] > order[2]

\* C6: Set(k, newValue) on a key that is present makes Get(k) newValue and
\* leaves Keys() as it was, with or without a sort function.
C6_UpdateKeepsPosition ==
    \A key \in Key, val \in Val :
        Has(Self, key) =>
            LET m == Set(Self, key, val)
            IN  /\ Get(m, key) = val
                /\ Keys(m) = Keys(Self)

\* C7: without a sort function, SetAt(i, k, v) with 0 <= i < Len() and k not
\* present (not in the mapping, not in Keys()) puts k at index i with value
\* v, leaves the entries before i, moves each entry from index j >= i to
\* j+1, and Len() grows by one.
C7_SetAtInserts ==
    \A index \in Index, key \in Key, val \in Val :
        (/\ lessF = NilF
         /\ index >= 0 /\ index < LenOf(Self)
         /\ ~Has(Self, key)
         /\ key \notin RangeOf(Keys(Self)))
          => LET m == SetAt(Self, index, key, val)
             IN  /\ m.panic = NoPanic
                 /\ GetKeyAt(m, index) = key
                 /\ GetAt(m, index) = val
                 /\ \A j \in 0..(index - 1) :
                       /\ GetKeyAt(m, j) = GetKeyAt(Self, j)
                       /\ GetAt(m, j) = GetAt(Self, j)
                 /\ \A j \in index..(Len(Keys(Self)) - 1) :
                       /\ GetKeyAt(m, j + 1) = GetKeyAt(Self, j)
                       /\ GetAt(m, j + 1) = GetAt(Self, j)
                 /\ Len(Keys(m)) = Len(Keys(Self)) + 1
                 /\ LenOf(m) = LenOf(Self) + 1

\* C7 witness: two keys are present after a SetAt, and SetAt(1, k, v) puts
\* a third between them.
C7_Witness ==
    /\ lessF = NilF /\ last = "SetAt" /\ panic = NoPanic
    /\ Bijection(Self) /\ Len(order) = 2
    /\ \E key \in Key, val \in Val :
          /\ ~Has(Self, key)
          /\ SetAt(Self, 1, key, val).order = <<order[1], key, order[2]>>

\* C8: without a sort function, SetAt(i, k, v) with i < 0 and k not present
\* puts k at index Len()+i of the old sequence when -Len() < i and at index
\* 0 when i <= -Len(), in every state, a never-written SliceMap included.
C8_NegativeIndex ==
    \A index \in Index, key \in Key, val \in Val :
        (lessF = NilF /\ index < 0 /\ ~Has(Self, key))
          => LET m == SetAt(Self, index, key, val)
             IN  /\ m.panic = NoPanic
                 /\ Keys(m) =
                       InsertAt(Keys(Self),
                                IF index <= 0 - LenOf(Self) THEN 0
                                ELSE LenOf(Self) + index,
                                key)
                 /\ Get(m, key) = val

\* C9: without a sort function, SetAt(i, k, v) on a key that is present
\* leaves k exactly once in Keys(), Len() as it was and Get(k) == v, and k
\* is last whenever i >= Len().
C9_SetAtMoves ==
    \A index \in Index, key \in Key, val \in Val :
        (lessF = NilF /\ Bijection(Self) /\ Has(Self, key))
          => LET m == SetAt(Self, index, key, val)
             IN  /\ m.panic = NoPanic
                 /\ Occurrences(Keys(m), key) = 1
                 /\ LenOf(m) = LenOf(Self)
                 /\ Get(m, key) = val
                 /\ (index >= LenOf(Self) => Keys(m)[Len(Keys(m))] = key)

\* C10: SetAt panics exactly when a sort function is installed, and a SetAt
\* that panics leaves Keys(), Values() and Len() as they were.
C10_SetAtFaults ==
    \A index \in Index, key \in Key, val \in Val :
        LET m == SetAt(Self, index, key, val)
        IN  /\ (m.panic # NoPanic) <=> (lessF # NilF)
            /\ (m.panic # NoPanic
                  => /\ Keys(m) = Keys(Self)
                     /\ Values(m) = Values(Self)
                     /\ LenOf(m) = LenOf(Self))

\* The same keys, each as often, in s and t.
SameEntries(s, t) ==
    \A k \in RangeOf(s) \cup RangeOf(t) : Occurrences(s, k) = Occurrences(t, k)

\* C11 as stated: SetSortFunc with a comparator, called right after a SetAt
\* that returned, panics.
C11_SetSortFuncFaults ==
    [][(last = "SetAt" /\ panic = NoPanic /\ last' = "SetSortFunc")
         => panic' # NoPanic]_vars

\* C11 amended: SetSortFunc with a comparator, called right after a SetAt
\* that returned, does not panic: it installs the comparator, keeps the
\* mapping and leaves Keys() as the same keys sorted by the comparator.
C11_SetSortFuncSorts ==
    [][(last = "SetAt" /\ panic = NoPanic /\ last' = "SetSortFunc")
         => /\ panic' = NoPanic
            /\ lessF' \in SortFuncs
            /\ items' = items
            /\ SameEntries(order', order)
            /\ IsSortedBy(lessF', items', order')]_vars

\* C11 witness: a sort function was installed right after a SetAt and
\* three keys are present.
C11_Witness ==
    /\ last = "SetSortFunc" /\ lessF = "byVal" /\ panic = NoPanic
    /\ Len(order) = 3 /\ MapLen(items) = 3

\* s without the entries equal to k.
Without(s, k) == SelectSeq(s, LAMBDA x : x # k)

\* C12: Delete(k) on a present key, in a state where Keys() and the mapping
\* agree and Keys() is sorted by the sort function if there is one, returns
\* k's value and removes exactly k: Has(k) is false, k is not in Keys(),
\* Len() dropped by one, the other keys are in Keys() in their previous
\* relative order.
C12_DeleteRemoves ==
    \A key \in Key :
        (/\ Has(Self, key)
         /\ Bijection(Self)
         /\ (lessF # NilF => IsSortedBy(lessF, items, Keys(Self))))
          => LET m == Delete(Self, key)
             IN  /\ m.panic = NoPanic
                 /\ DeleteVal(Self, key) = Get(Self, key)
                 /\ ~Has(m, key)
                 /\ LenOf(m) = LenOf(Self) - 1
                 /\ Keys(m) = Without(Keys(Self), key)

\* Get, Load and Delete of an absent key return the zero value (and false),
\* and the Delete leaves the SliceMap as it was.
AbsentKeyIsZero ==
    \A key \in Key :
        ~Has(Self, key)
          => /\ Get(Self, key) = ZeroV
             /\ Load(Self, key) = <<ZeroV, FALSE>>
             /\ DeleteVal(Self, key) = ZeroV
             /\ Delete(Self, key) = Self

\* GetAt and GetKeyAt of a position below 0 or from Len() on return the
\* zero value and the zero key.
OutOfRangeIsZero ==
    \A position \in Index :
        (position < 0 \/ position >= LenOf(Self))
          => /\ GetAt(Self, position) = ZeroV
             /\ GetKeyAt(Self, position) = EmptyKey

\* C13: on every reachable SliceMap, a never-written one included, Get,
\* Load, Has and Delete of an absent key and GetAt and GetKeyAt of a
\* position < 0 or >= Len() return the zero value without a panic and leave
\* Keys(), Values() and Len() as they were.
C13_NotFound == AbsentKeyIsZero /\ OutOfRangeIsZero

\* C14: Range(f), All(), KeysIter() and ValuesIter() make exactly
\* min(Len(), j) calls when the callback returns false on its j-th call,
\* the i-th with the i-th key of Keys() and its value, and none on an empty
\* or never-written map.
C14_RangeOrder ==
    \A j \in Stops :
        LET n == IF j < LenOf(Self) THEN j ELSE LenOf(Self)
        IN  /\ Range(Self, j) =
                  [i \in 1..n |-> <<GetKeyAt(Self, i - 1), GetAt(Self, i - 1)>>]
            /\ All(Self, j) = Range(Self, j)
            /\ KeysIter(Self, j) = [i \in 1..n |-> GetKeyAt(Self, i - 1)]
            /\ ValuesIter(Self, j) = [i \in 1..n |-> GetAt(Self, i - 1)]

\* The sequences of Set calls that write each key at most once.
FreshSets ==
    {q \in UNION {[1..n -> Pair] : n \in 0..NumKeys} :
        \A i, j \in DOMAIN q : q[i].key = q[j].key => i = j}

\* C15: after SetSortFunc(cmp), any Sets and then Clear(), Len() is 0, the
\* sort function is still cmp's, every sequence of Set calls with fresh keys
\* that follows leaves Keys() sorted by it, and SetAt panics before and
\* after those Sets.
C15_ClearKeepsSortFunc ==
    last = "Clear" =>
        /\ lessF # NilF
        /\ LenOf(Self) = 0 /\ Keys(Self) = <<>> /\ Values(Self) = <<>>
        /\ \A q \in FreshSets :
              LET m == SetAll(Self, q)
              IN  /\ m.panic = NoPanic
                  /\ m.lessF = lessF
                  /\ RangeOf(Keys(m)) = {q[i].key : i \in DOMAIN q}
                  /\ Len(Keys(m)) = Len(q)
                  /\ \A i \in DOMAIN q : Get(m, q[i].key) = q[i].val
                  /\ IsSortedBy(lessF, m.items, Keys(m))
                  /\ \A index \in Index, key \in Key, val \in Val :
                        SetAt(m, index, key, val) =
                            [m EXCEPT !.panic = PanicSetAt]

\* C15 witness: Clear has emptied a SliceMap sorted by value, and two Sets
\* with fresh keys that follow leave the second key first.
C15_Witness ==
    /\ last = "Clear" /\ lessF = "byVal" /\ panic = NoPanic
    /\ \E q \in FreshSets :
          /\ Len(q) = 2
          /\ Keys(SetAll(Self, q)) = <<q[2].key, q[1].key>>

\* What the read operations return on m: Len, Keys, Values, String, and
\* Get, Load, Has per key, GetAt, GetKeyAt per position, Range per stop.
Reads(m) ==
    [len |-> LenOf(m), keys |-> Keys(m), values |-> Values(m),
     string |-> String(m),
     get |-> [k \in Key |-> Get(m, k)],
     load |-> [k \in Key |-> Load(m, k)],
     has |-> [k \in Key |-> Has(m, k)],
     getAt |-> [p \in Index |-> GetAt(m, p)],
     getKeyAt |-> [p \in Index |-> GetKeyAt(m, p)],
     range |-> [j \in Stops |-> Range(m, j)]]

\* C16: after Clear(), whatever calls preceded it, every read operation
\* returns what it returns on a never-written SliceMap.
C16_ClearedIsNew ==
    /\ Reads(Clear(Self)) = Reads(NewSliceMap)
    /\ (last = "Clear" => Reads(Self) = Reads(NewSliceMap))

\* C16 witness: Clear has run on a SliceMap with a sort function, and a Set
\* after it shows in the reads.
C16_Witness ==
    /\ last = "Clear" /\ lessF # NilF
    /\ \E key \in Key, val \in Val :
          Reads(Set(Self, key, val)).string =
              <<"{", ToString(key), ":", ToString(val), "}">>

\* The keys of the pairs of src that m does not hold, in src's order.
NewKeys(m, src) ==
    LET fresh == SelectSeq(src, LAMBDA p : ~Has(m, p.key))
    IN  [i \in DOMAIN fresh |-> fresh[i].key]

\* C17: Copy(other) and Merge(other), on a SliceMap whose Keys() and mapping
\* agree and whose Keys() is sorted if it has a sort function, leave every
\* key of other with other's value and every other key of the receiver
\* with its value; without a sort function Keys() is the old Keys()
\* followed by the keys new to the receiver in other's order.
C17_CopyUpserts ==
    \A src \in Sources :
        (/\ Bijection(Self)
         /\ (lessF # NilF => IsSortedBy(lessF, items, Keys(Self))))
          => LET m == Copy(Self, src)
             IN  /\ m.panic = NoPanic
                 /\ Merge(Self, src) = m
                 /\ \A i \in DOMAIN src : Get(m, src[i].key) = src[i].val
                 /\ \A k \in DOMAIN items :
                       k \notin {src[i].key : i \in DOMAIN src}
                         => Has(m, k) /\ Get(m, k) = Get(Self, k)
                 /\ (lessF = NilF
                       => Keys(m) = Keys(Self) \o NewKeys(Self, src))

\* The SliceMaps a sequence of Set calls on a new SliceMap builds.
Built == {SetAll(NewSliceMap, q) : q \in Sources}

\* The same key set and the same value for every key.
SameMapping(m, m2) == m.items = m2.items

\* C18: Equal(other) is true exactly when both SliceMaps hold the same key
\* set with equal values, whatever the order of their keys, for a SliceMap
\* built by Sets compared with a reachable one and the other way round.
C18_EqualIgnoresOrder ==
    \A m \in Built :
        /\ Equal(m, Self) <=> SameMapping(m, Self)
        /\ Equal(Self, m) <=> SameMapping(Self, m)

\* The calls on the clone.
CloneCalls ==
    {"clone.Set", "clone.SetAt", "clone.Delete", "clone.DeleteFunc",
     "clone.Clear"}

\* Keys(), Values() and Get of every key.
Observed(m) == <<Keys(m), Values(m), [k \in Key |-> Get(m, k)]>>

\* C19: Clone() returns a SliceMap with the Keys(), the values and the sort
\* function of the source; a Set, SetAt, Delete, DeleteFunc or Clear on the
\* clone leaves Keys(), Values() and every Get of the source as they were,
\* and one on the source leaves those of the clone.
C19_CloneIndependent ==
    [][/\ last' = "Clone"
          => /\ Observed(clone') = Observed(Self)
             /\ clone'.lessF = lessF
             /\ Observed(Self)' = Observed(Self)
       /\ (last = "Clone" /\ last' \in CloneCalls)
          => Observed(Self)' = Observed(Self)
       /\ (last = "Clone" /\ last' \notin CloneCalls)
          => Observed(clone') = Observed(clone)]_vars

\* C19 witness: a Set on the clone of a SliceMap with two keys and a sort
\* function changed a value the source still holds.
C19_Witness ==
    /\ last = "clone.Set" /\ lessF # NilF /\ clone.panic = NoPanic
    /\ Len(order) = 2 /\ clone.order = order
    /\ \E k \in DOMAIN items : clone.items[k] # items[k]

\* C20: DeleteFunc(pred) calls pred once for every entry of the mapping and
\* removes exactly the entries pred accepts: they leave the mapping, the
\* others keep their values, and Keys() is the old Keys() without the
\* accepted keys.
C20_DeleteFuncRemoves ==
    \A del \in SUBSET Key :
        LET m == DeleteFunc(Self, del)
        IN  /\ m.panic = NoPanic
            /\ Len(DeleteFuncCalls(Self)) = LenOf(Self)
            /\ RangeOf(DeleteFuncCalls(Self)) = DOMAIN items
            /\ DOMAIN m.items = DOMAIN items \ del
            /\ \A k \in DOMAIN m.items : Get(m, k) = Get(Self, k)
            /\ Keys(m) = SelectSeq(Keys(Self), LAMBDA k : k \notin del)

\* Whether two entries t holds in the order (a, b) and f ranks as equal are
\* in that order in s too.
KeepsTies(f, its, s, t) ==
    \A i, j \in DOMAIN t :
        (i < j /\ ~Less(f, t[i], t[j], MapGet(its, t[i]), MapGet(its, t[j]))
               /\ ~Less(f, t[j], t[i], MapGet(its, t[j]), MapGet(its, t[i])))
            => \E i2, j2 \in DOMAIN s : i2 < j2 /\ s[i2] = t[i] /\ s[j2] = t[j]

\* C21 as stated: SetSortFunc(cmp) on a populated SliceMap leaves the keys
\* sorted by cmp, with every two entries cmp ranks as equal in the relative
\* order they had before the call.
C21_SetSortFuncStable ==
    \A f \in SortFuncs : \A m \in SetSortFunc(Self, f) :
        order # <<>> => /\ IsSortedBy(f, m.items, m.order)
                        /\ KeepsTies(f, items, order, m.order)

\* C21 amended: SetSortFunc(cmp) on a populated SliceMap returns with cmp
\* installed, the mapping as it was and Keys() the same keys sorted by cmp;
\* the relative order of entries cmp ranks as equal is not part of it.
C21_SetSortFuncResorts ==
    \A f \in SortFuncs : \A m \in SetSortFunc(Self, f) :
        order # <<>> => /\ m.panic = NoPanic
                        /\ m.lessF = f
                        /\ m.items = items
                        /\ SameEntries(m.order, order)
                        /\ IsSortedBy(f, m.items, m.order)

\* C21 witness: a populated SliceMap without a sort function got one that
\* ranks keys 0 and 1 as equal, and the two came out as 1 before 0.
C21_Witness ==
    /\ last = "SetSortFunc" /\ lessF = "byGroup" /\ panic = NoPanic
    /\ order = <<1, 0, 2>> /\ MapLen(items) = 3

\* C22: SetSortFunc(nil) returns with no sort function and with Keys() and
\* Values() as they were, and while no sort function is installed a Set of
\* a key that is not present appends the key to Keys().
C22_RemoveSortFunc ==
    /\ \A m \in SetSortFunc(Self, NilF) :
           /\ m.panic = NoPanic
           /\ m.lessF = NilF
           /\ Keys(m) = Keys(Self)
           /\ Values(m) = Values(Self)
    /\ lessF = NilF =>
           \A key \in Key \ DOMAIN items, val \in Val :
               /\ Set(Self, key, val).panic = NoPanic
               /\ Keys(Set(Self, key, val)) = Append(Keys(Self), key)

\* C22 witness: the sort function was removed and three keys were set
\* since, standing in an order none of the sort functions would leave.
C22_Witness ==
    /\ last = "Set" /\ lessF = NilF /\ panic = NoPanic
    /\ order = <<2, 1, 0>>
    /\ MapLen(items) = 3 /\ MapGet(items, 2) = 0 /\ MapGet(items, 1) = 1
    /\ MapGet(items, 0) = 0

\* C23: a populated SliceMap that is gob-encoded and decoded into a new
\* SliceMap gives one with the same Keys(), the same Values() and the same
\* Get(k) for every key, and with no sort function.
C23_BinaryRoundTrip ==
    (last = "BinaryMarshal" /\ LenOf(Self) > 0) =>
        /\ Keys(clone) = Keys(Self)
        /\ Values(clone) = Values(Self)
        /\ \A k \in Key : Get(clone, k) = Get(Self, k)
        /\ clone.lessF = NilF
        /\ clone.panic = NoPanic

\* C23 witness: a SliceMap without a sort function that holds three keys
\* in another order than the ascending one was encoded and decoded.
C23_Witness ==
    /\ last = "BinaryMarshal" /\ lessF = NilF /\ order = <<2, 0, 1>>
    /\ MapLen(items) = 3 /\ MapGet(items, 0) = 1 /\ Len(clone.order) = 3

\* C24: an UnmarshalBinary or UnmarshalJSON that returns an error leaves
\* Keys(), Values() and Len() as they were before the call.
C24_FailedDecode ==
    [][last' = "error" =>
          /\ Keys(Self)' = Keys(Self)
          /\ Values(Self)' = Values(Self)
          /\ LenOf(Self)' = LenOf(Self)
          /\ panic' = NoPanic]_vars

\* C24 witness: a decoding into a SliceMap with two keys failed.
C24_Witness ==
    /\ last = "error" /\ panic = NoPanic
    /\ order = <<1, 0>> /\ MapLen(items) = 2 /\ MapGet(items, 1) = 1

\* The elements of v that are not in s, each once, in the order of their
\* first occurrence in v.
RECURSIVE NewInOrder(_, _)
NewInOrder(s, v) ==
    IF v = <<>> THEN <<>>
    ELSE IF Head(v) \in RangeOf(s) THEN NewInOrder(s, Tail(v))
    ELSE <<Head(v)>> \o NewInOrder(Append(s, Head(v)), Tail(v))

\* C25: decoding a JSON array into a non-empty Set, OrderedSet or SliceSet
\* returns with the set holding its previous elements and the elements of
\* the array (Values() has just these, Len() counts them, Has() finds
\* them); the Values() of a SliceSet without a sort function are the
\* previous ones followed by the new elements in array order.
C25_JSONAdds ==
    \A data \in {d \in JSONArrays : d.err = "none"} :
        /\ SetLen(set) > 0 =>
               LET s == SetUnmarshalJSON(set, data)
                   union == DOMAIN set.items \cup RangeOf(data.v)
               IN  /\ \A vs \in SetValues(s) : RangeOf(vs) = union
                   /\ RangeOf(OrderedSetValues(s)) = union
                   /\ SetLen(s) = Cardinality(union)
                   /\ \A k \in Key : SetHas(s, k) <=> k \in union
        /\ SliceSetLen(Self) > 0 =>
               LET m == SliceSetUnmarshalJSON(Self, data)
                   union == RangeOf(SliceSetValues(Self)) \cup RangeOf(data.v)
               IN  /\ m.panic = NoPanic
                   /\ RangeOf(SliceSetValues(m)) = union
                   /\ SliceSetLen(m) = Cardinality(union)
                   /\ \A k \in Key : SliceSetHas(m, k) <=> k \in union
                   /\ lessF = NilF =>
                          SliceSetValues(m) =
                              SliceSetValues(Self)
                                  \o NewInOrder(SliceSetValues(Self), data.v)

\* The zero result of a read of a SliceMap without entries: the zero value,
\* not found, the zero key, no keys, no values, length 0, no call of the
\* callback, equal to a map without entries alone, no bytes and no error.
NilZero ==
    CASE last \in {"nil.Get", "nil.GetAt"} -> <<ZeroV>>
      [] last = "nil.Load" -> <<ZeroV, FALSE>>
      [] last = "nil.Has" -> <<FALSE>>
      [] last = "nil.GetKeyAt" -> <<EmptyKey>>
      [] last = "nil.Len" -> <<0>>
      [] last = "nil.Equal" -> <<ret.nilArg \/ MapLen(items) = 0>>
      [] last \in {"nil.MarshalBinary", "nil.MarshalJSON"} -> <<"nil", "nil">>
      [] OTHER -> <<>>

\* C26: a read-only call on a nil *SliceMap returns without a panic, and
\* what it returns is the zero result.
C26_NilReads ==
    last \in NilReads => panic = NoPanic /\ ret.val = NilZero

\* C27 as stated: a mutating call on a nil *SliceMap panics.
C27_NilWritesFault == last \in NilWrites => panic # NoPanic

\* C27 amended: on a nil *SliceMap, Set, SetAt, SetSortFunc, DeleteFunc,
\* UnmarshalBinary and UnmarshalJSON panic; Copy and Insert panic unless
\* their argument yields no entry; Delete and Clear return (Delete the
\* zero value).
C27_NilWrites ==
    last \in NilWrites =>
        IF last \in {"nil.Delete", "nil.Clear"}
        THEN panic = NoPanic
                 /\ ret.val = (IF last = "nil.Delete" THEN <<ZeroV>> ELSE <<>>)
        ELSE IF last \in {"nil.Copy", "nil.Insert"}
        THEN panic = NoPanic
                 <=> (~ret.nilArg /\ Range(Self, Len(order) + 1) = <<>>)
        ELSE panic # NoPanic

\* C27 witness: Delete was called on a nil *SliceMap and returned.
C27_Witness == last = "nil.Delete" /\ panic = NoPanic /\ ret.val = <<ZeroV>>

\* g is past Lock() in some call, and has not unlocked.
HoldsWrite(g) ==
    \E n \in DOMAIN stack[g] :
        stack[g][n].pc = "held" /\ stack[g][n].op \in TakesLock(kind)

\* g is past RLock() in some call, and has not unlocked.
HoldsRead(g) ==
    \E n \in DOMAIN stack[g] :
        stack[g][n].pc = "held" /\ stack[g][n].op \in TakesRLock(kind)

\* g is past Lock() in a call that assigns the items field of the inner
\* SliceMap: Clear and the two decoders, and Set and SetAt on a nil map.
AssignsItems(g) ==
    \E n \in DOMAIN stack[g] :
        /\ stack[g][n].pc = "held"
        /\ \/ stack[g][n].op \in {"Clear", "UnmarshalBinary", "UnmarshalJSON"}
           \/ stack[g][n].op \in {"Set", "SetAt"} /\ ~alloc

\* g is about to read the items field of the inner SliceMap without the
\* lock.
ReadsUnlocked(g) == stack[g] # <<>> /\ Top(g).pc = "check"

\* C28: no goroutine reads or writes the state of the SliceMap inside a
\* SafeSliceMap while another goroutine is writing it: none is past its
\* lock while another is past the write lock, and none reads the items
\* field without the lock while another is in a call that assigns it.
C28_NoRace ==
    kind = "SafeSliceMap" =>
        \A g \in Goroutines : \A h \in Goroutines \ {g} :
            /\ ~(HoldsWrite(h) /\ (HoldsWrite(g) \/ HoldsRead(g)))
            /\ ~(AssignsItems(h) /\ ReadsUnlocked(g))

\* g holds the lock in neither mode.
Free(g) == mu.writer # g /\ mu.readers[g] = 0

\* g is in Lock() or RLock().
Waiting(g) == stack[g] # <<>> /\ Top(g).pc = "lock"

\* C29: whenever a goroutine is in no call of the SafeSliceMap or SafeMap,
\* whether its last call returned, returned early or panicked, it holds
\* the lock in neither mode; and a goroutine in Lock() or RLock()
\* eventually gets the lock.
C29_LockReleased ==
    /\ [](\A g \in Goroutines : stack[g] = <<>> => Free(g))
    /\ \A g \in Goroutines : Waiting(g) ~> ~Waiting(g)

\* C29 witness: g1 panicked in the function it passed to a method of a
\* SafeSliceMap holding entries, the lock is free, and g2 is in Lock() or
\* RLock().
C29_Witness ==
    /\ kind = "SafeSliceMap" /\ panic = PanicCallback /\ Len(order) > 0
    /\ stack["g1"] = <<>> /\ mu = Unlocked
    /\ Waiting("g2")

\* The function g passed to Range, All, KeysIter or ValuesIter has called
\* a method that takes the write lock.
InnerCall(g) ==
    /\ Len(stack[g]) = 2
    /\ stack[g][1].op \in {"Range", "KeysIter", "ValuesIter"}

\* C30: a mutating method called from the function passed to Range, All,
\* KeysIter or ValuesIter of the same SafeSliceMap or SafeMap never gets
\* the write lock and never returns.
C30_Reentrant ==
    [][\A g \in Goroutines :
          InnerCall(g) => InnerCall(g)' /\ stack'[g][2].pc # "held"]_vars

\* C30 witness: the function g1 passed to Range of a SafeMap called Set,
\* which is in Lock() while Range holds the read lock.
C30_Witness ==
    /\ kind = "SafeMap"
    /\ InnerCall("g1") /\ stack["g1"][1].op = "Range"
    /\ stack["g1"][2] = [op |-> "Set", pc |-> "lock", i |-> 0]
    /\ mu.readers["g1"] = 1

\* The key slice s and the mapping its are in bijection.
Bijective(its, s) ==
    /\ RangeOf(s) = DOMAIN its
    /\ \A i, j \in DOMAIN s : s[i] = s[j] => i = j

C32_Interchangeable ==
    /\ panic = NoPanic
    /\ LenOf(Self) = MapLen(std.items)
    /\ \A k \in Key :
           /\ Has(Self, k) = (k \in DOMAIN std.items)
           /\ Get(Self, k) = MapGet(std.items, k)
           /\ Load(Self, k) = <<MapGet(std.items, k), k \in DOMAIN std.items>>
    /\ last = "Delete" => ret.val[1] = ret.val[2]
    /\ \A op \in VariantOps : \A a \in ArgsOf(op) :
           /\ SafeMapCall(op, std, a) = MapCall(op, std, a)
           /\ SafeSliceMapCall(op, Self, a) = SliceMapCall(op, Self, a)

\* C33: SliceSet.Add of a value that is in the set changes nothing, with no
\* sort function and with any: Values() and Len() are as before, and the
\* call does not panic.
C33_AddIdempotent ==
    \A k \in Key :
        SliceSetHas(Self, k) =>
            LET m == SliceSetAdd(Self, <<k>>)
            IN  /\ m.panic = NoPanic
                /\ SliceSetValues(m) = SliceSetValues(Self)
                /\ SliceSetLen(m) = SliceSetLen(Self)

\* C34: after every sequence of Add, Delete, DeleteFunc, Copy, Insert and
\* Clear on an OrderedSet, whatever order the map yields its keys in,
\* Values() and All() hold each element of the set once in strictly
\* ascending order, and Range with a callback that returns false at some
\* call visits those values up to that call and no more.
C34_SortedAtRead ==
    \A q \in MapRanges(set.items) :
        LET values == OrderedSetValuesFrom(set, q)
        IN  /\ RangeOf(values) = DOMAIN set.items
            /\ Len(values) = SetLen(set)
            /\ \A i \in 1..(Len(values) - 1) : values[i] < values[i + 1]
            /\ \A stop \in Stops :
                   /\ OrderedSetRange(set, q, stop)
                          = SubSeq(values, 1, Len(OrderedSetRange(set, q, stop)))
                   /\ Len(OrderedSetRange(set, q, stop)) <= stop
                   /\ stop >= Len(values) =>
                          OrderedSetRange(set, q, stop) = values
            /\ last = "Values" => ret.val = values
            /\ last = "Range" =>
                   ret.val = SubSeq(values, 1, Len(ret.val))

\* C34 witness: Range on an OrderedSet of every key stopped after its
\* second call.
C34_Witness ==
    last = "Range" /\ DOMAIN set.items = Key /\ Len(ret.val) = 2

\* C35: SliceMap.DeleteFunc calls its predicate on the entries in the
\* order of the map: the keys it is called with, in the order of the
\* calls, are Keys(), the first key first.
C35_DeleteFuncInOrder == DeleteFuncCalls(Self) = Keys(Self)

\* g is in Copy or Insert, between two calls of Set.
BetweenEntries(g) == Len(stack[g]) = 1 /\ Top(g).op \in Copies

\* C36: SafeSliceMap.Copy and SafeSliceMap.Insert hold the write lock only
\* inside the Set of each pair: between two pairs, and after the last, the
\* copying goroutine holds no lock, so that other goroutines can take it.
C36_LockPerEntry ==
    \A g \in Goroutines :
        /\ BetweenEntries(g) => Free(g)
        /\ (Len(stack[g]) = 2 /\ stack[g][1].op \in Copies) =>
               (mu.writer = g <=> Top(g).pc = "held")

\* C36 witness: g1 has copied the first of the two pairs, and g2, past
\* RLock() in Len, reads a map that holds the first key and not the second.
C36_Witness ==
    /\ BetweenEntries("g1") /\ Top("g1").i = 1
    /\ stack["g2"] = <<[op |-> "Len", pc |-> "held", i |-> 0]>>
    /\ mu.readers["g2"] = 1
    /\ DOMAIN items = {CopySource[1].key}

\* C37: under every interleaving of Set, Copy and Merge calls on one
\* SafeMap, none of which removes a key, an entry a call that returned has
\* written stays in the map: no step takes a key out of the map.
C37_NoLostWrite == [][\A k \in DOMAIN items : k \in DOMAIN items']_vars

\* C38: Insert(seq) on a new Map, SafeMap, SliceMap (with or without a
\* sort function) or SafeSliceMap does not panic and leaves the container
\* holding every pair of seq, a later pair of a key replacing an earlier.
C38_InsertOnNew ==
    last \in {"new", "SetSortFunc"} =>
        \A a \in ArgsOf("Insert") :
            LET want == MapSetEach(EmptyMap, a.src)
            IN  /\ MapCall("Insert", std, a).panic = NoPanic
                /\ MapCall("Insert", std, a).items = want
                /\ SafeMapCall("Insert", std, a).panic = NoPanic
                /\ SafeMapCall("Insert", std, a).items = want
                /\ SliceMapCall("Insert", Self, a).panic = NoPanic
                /\ SliceMapCall("Insert", Self, a).items = want
                /\ SafeSliceMapCall("Insert", Self, a).panic = NoPanic
                /\ SafeSliceMapCall("Insert", Self, a).items = want

\* C39: UnmarshalBinary or UnmarshalJSON of a Map or SafeMap (both call
\* the method of the StdMap) that fails returns the error and leaves the
\* entries as they were: the same Len() and the same Get(k) for every key.
C39_FailedDecodeKeeps ==
    \A op \in {"UnmarshalBinary", "UnmarshalJSON"} :
        \A a \in ArgsOf(op) :
            a.data.err # "none" =>
                /\ MapCall(op, std, a).ret = <<a.data.err>>
                /\ MapCall(op, std, a).items = std.items
                /\ SafeMapCall(op, std, a).ret = <<a.data.err>>
                /\ SafeMapCall(op, std, a).items = std.items

\* C40: the clone of a SliceSet has the Values() of its source, and after
\* the same Add on both the two have equal Values() again, with or without
\* a sort function on the source.
C40_CloneBehaves ==
    LET c == SliceSetClone(Self)
    IN  /\ c.panic = NoPanic
        /\ SliceSetValues(c) = SliceSetValues(Self)
        /\ \A k \in Key :
               SliceSetValues(SliceSetAdd(c, <<k>>))
                   = SliceSetValues(SliceSetAdd(Self, <<k>>))

====
